---------------------------- MODULE Spec2Model ----------------------------
(***************************************************************************)
(* A model of the Dflow engine of src/dflow.ts.                            *)
(*                                                                         *)
(* JavaScript strings are sequences of one-character strings, so that the  *)
(* PinId encoding ("id" or "id,position") is computed, not assumed.  A JS  *)
(* Map is a sequence of <<key, value>> entries in insertion order.  An     *)
(* engine instance (class Dflow) is a record with the fields of the class. *)
(***************************************************************************)
EXTENDS Integers, Sequences, FiniteSets, TLC

VARIABLES
    dflow,    \* the engine instance: a record of the fields of class Dflow
    thrown,   \* <<>> or <<error>>: the error the last operation threw
    returned, \* <<>> or <<value>>: what the last operation returned
    task      \* the position of run(): pc, schedule, index, invocation log

vars == <<dflow, thrown, returned, task>>

-----------------------------------------------------------------------------
(* Bounds of the model *)

\* pin positions range over 0..MaxPos
MaxPos == 1

\* at most MaxPipes entries in a pipe map
MaxPipes == 2

\* the lists passed to insert() and delete() have at most MaxList elements
MaxList == 1

-----------------------------------------------------------------------------
(* Strings *)

Comma == ","

Digits == <<"0", "1", "2", "3", "4", "5", "6", "7", "8", "9">>

\* the result of Number() on a string that is not a numeral
NaN == -1

RECURSIVE NumberToString(_)
\* String(n) of a non-negative integer
NumberToString(n) ==
    IF n < 10 THEN <<Digits[n + 1]>>
    ELSE NumberToString(n \div 10) \o <<Digits[(n % 10) + 1]>>

DigitValue(c) == CHOOSE d \in 0..9 : Digits[d + 1] = c

IsDigit(c) == \E d \in 0..9 : Digits[d + 1] = c

RECURSIVE DigitsToNumber(_, _)
DigitsToNumber(s, acc) ==
    IF s = <<>> THEN acc
    ELSE DigitsToNumber(Tail(s), acc * 10 + DigitValue(Head(s)))

\* Number(str) for the strings split(",") yields here: the empty string is 0,
\* a decimal numeral is its value, anything else is NaN
StringToNumber(s) ==
    IF \A i \in 1..Len(s) : IsDigit(s[i]) THEN DigitsToNumber(s, 0) ELSE NaN

RECURSIVE Split(_, _)
\* str.split(sep): the list of the pieces between the separators
Split(s, sep) ==
    IF \A i \in 1..Len(s) : s[i] # sep THEN <<s>>
    ELSE LET k == CHOOSE i \in 1..Len(s) :
                      s[i] = sep /\ \A j \in 1..(i - 1) : s[j] # sep
         IN  <<SubSeq(s, 1, k - 1)>> \o Split(SubSeq(s, k + 1, Len(s)), sep)

-----------------------------------------------------------------------------
(* Pins: Dflow.Pin = NodeId | [nodeId, position] *)

StringPin(s) == [type |-> "string", str |-> s]

ArrayPin(id, position) == [type |-> "array", nodeId |-> id, position |-> position]

\* pinToPinId joining every pair, position 0 included
pinToPinId_Join(pin) ==
    IF pin.type = "string" THEN pin.str
    ELSE pin.nodeId \o <<Comma>> \o NumberToString(pin.position)

pinToPinId(pin) ==
    IF pin.type = "string" THEN pin.str
    ELSE IF pin.position = 0 THEN pin.nodeId
    ELSE pin.nodeId \o <<Comma>> \o NumberToString(pin.position)

\* pinIdToPin giving the node id only, whatever the position
pinIdToPin_NodeOnly(id) == StringPin(Split(id, Comma)[1])

pinIdToPin(id) ==
    LET parts == Split(id, Comma)
        nodeId == parts[1]
        position == IF Len(parts) >= 2 THEN StringToNumber(parts[2]) ELSE NaN
    IN  IF position # 0 /\ position # NaN
        THEN ArrayPin(nodeId, position)
        ELSE StringPin(nodeId)

nodeIdOfPin(pin) == IF pin.type = "string" THEN pin.str ELSE pin.nodeId

nodeIdsOfPipe(pipe) == <<nodeIdOfPin(pipe.from), nodeIdOfPin(pipe.to)>>

\* Dflow.pipeIdToPipe([to, from])
pipeIdToPipe(entry) ==
    [from |-> pinIdToPin(entry[2]), to |-> pinIdToPin(entry[1])]

-----------------------------------------------------------------------------
(* JS Map: entries <<key, value>> in insertion order *)

MapHas(m, k) == \E i \in 1..Len(m) : m[i][1] = k

MapIndex(m, k) == CHOOSE i \in 1..Len(m) : m[i][1] = k

\* m.get(k) of a key that is present
MapGet(m, k) == m[MapIndex(m, k)][2]

\* m.set(k, v): a present key keeps its place, a new key goes last
MapSet(m, k, v) ==
    IF MapHas(m, k)
    THEN [m EXCEPT ![MapIndex(m, k)] = <<k, v>>]
    ELSE Append(m, <<k, v>>)

RECURSIVE MapDelete(_, _)
MapDelete(m, k) ==
    IF m = <<>> THEN <<>>
    ELSE IF Head(m)[1] = k THEN Tail(m)
    ELSE <<Head(m)>> \o MapDelete(Tail(m), k)

MapKeys(m) == {m[i][1] : i \in 1..Len(m)}

-----------------------------------------------------------------------------
(* Errors: Dflow.Error.* *)

BrokenPipe(pipe) == [errorName |-> "DflowErrorBrokenPipe", pipe |-> pipe]

NodeExecution(nodeId, nodeName, nodeErrorMessage) ==
    [errorName |-> "DflowErrorNodeExecution", nodeId |-> nodeId,
     nodeName |-> nodeName, nodeErrorMessage |-> nodeErrorMessage]

NodeNotFound(nodeId) == [errorName |-> "DflowErrorNodeNotFound", nodeId |-> nodeId]

NodeOverride(name) == [errorName |-> "DflowErrorNodeOverride", nodeName |-> name]

\* the outcome of an operation: the engine afterwards, what was thrown (if
\* anything) and what was returned (if anything)
Ok(d) == [d |-> d, thrown |-> <<>>, returned |-> <<>>]

Return(d, value) == [d |-> d, thrown |-> <<>>, returned |-> <<value>>]

Throw(d, error) == [d |-> d, thrown |-> <<error>>, returned |-> <<>>]

-----------------------------------------------------------------------------
(* The graph store *)

\* the fields of a Dflow instance before the constructor body runs
EmptyDflow ==
    [name |-> <<>>, args |-> <<>>, outs |-> <<>>,
     context |-> <<>>, func |-> <<>>, graph |-> <<>>, ioNodes |-> {},
     node |-> <<>>, nodeArgs |-> <<>>, nodeGraph |-> <<>>, nodeOuts |-> <<>>,
     out |-> <<>>, pipe |-> <<>>]

addNode(d, name, id) == Return([d EXCEPT !.node = MapSet(@, id, name)], id)

\* isBrokenPipe testing the target node alone
isBrokenPipe_TargetOnly(pipe, node) ==
    ~MapHas(node, nodeIdOfPin(pipe.to))

isBrokenPipe(pipe, node) ==
    \E i \in 1..2 : ~MapHas(node, nodeIdsOfPipe(pipe)[i])

addPipe(d, pipe) ==
    IF isBrokenPipe(pipe, d.node) THEN Throw(d, BrokenPipe(pipe))
    ELSE Ok([d EXCEPT !.pipe =
                 MapSet(@, pinToPinId(pipe.to), pinToPinId(pipe.from))])

delPipe(d, to) == Ok([d EXCEPT !.pipe = MapDelete(@, pinToPinId(to))])

RECURSIVE DeleteNodes(_, _, _)
\* delete(), first loop: remove the listed nodes that have a (truthy) name;
\* acc = [node, deleted, deletedNodeIds]
DeleteNodes(nodes, i, acc) ==
    IF i > Len(nodes) THEN acc
    ELSE LET id == nodes[i].id
         IN  IF MapHas(acc.node, id) /\ MapGet(acc.node, id) # <<>>
             THEN DeleteNodes(nodes, i + 1,
                      [node |-> MapDelete(acc.node, id),
                       deleted |-> Append(acc.deleted,
                                       [id |-> id, name |-> MapGet(acc.node, id)]),
                       deletedNodeIds |-> acc.deletedNodeIds \cup {id}])
             ELSE DeleteNodes(nodes, i + 1, acc)

RECURSIVE PipesOfDeletedNodes(_, _, _)
\* delete(), second loop: the pipes that were connected to deleted nodes
PipesOfDeletedNodes(pipe, i, deletedNodeIds) ==
    IF i > Len(pipe) THEN <<>>
    ELSE LET toId == pipe[i][1]
             fromId == pipe[i][2]
             rest == PipesOfDeletedNodes(pipe, i + 1, deletedNodeIds)
         IN  IF nodeIdOfPin(StringPin(toId)) \in deletedNodeIds
                \/ nodeIdOfPin(StringPin(fromId)) \in deletedNodeIds
             THEN <<[to |-> pinIdToPin(toId)]>> \o rest
             ELSE rest

RECURSIVE DeletePipes(_, _, _)
\* delete(), third loop: remove the wanted pipes that have a source;
\* acc = [pipe, deleted]
DeletePipes(pipes, i, acc) ==
    IF i > Len(pipes) THEN acc
    ELSE LET to == pipes[i].to
             toId == pinToPinId(to)
         IN  IF MapHas(acc.pipe, toId) /\ MapGet(acc.pipe, toId) # <<>>
             THEN DeletePipes(pipes, i + 1,
                      [pipe |-> MapDelete(acc.pipe, toId),
                       deleted |-> Append(acc.deleted,
                           [from |-> StringPin(MapGet(acc.pipe, toId)), to |-> to])])
             ELSE DeletePipes(pipes, i + 1, acc)

\* delete returning, of the pipes it removed, only the ones that were listed
delete_ListedPipesOnly(d, nodes, pipes) ==
    LET n == DeleteNodes(nodes, 1,
                 [node |-> d.node, deleted |-> <<>>, deletedNodeIds |-> {}])
        pipesOfDeletedNodes == PipesOfDeletedNodes(d.pipe, 1, n.deletedNodeIds)
        p == DeletePipes(pipes \o pipesOfDeletedNodes, 1,
                 [pipe |-> d.pipe, deleted |-> <<>>])
        listed == DeletePipes(pipes, 1, [pipe |-> d.pipe, deleted |-> <<>>])
    IN  Return([d EXCEPT !.node = n.node, !.pipe = p.pipe],
               [nodes |-> n.deleted, pipes |-> listed.deleted])

\* Dflow.delete({nodes, pipes})
delete(d, nodes, pipes) ==
    LET n == DeleteNodes(nodes, 1,
                 [node |-> d.node, deleted |-> <<>>, deletedNodeIds |-> {}])
        pipesOfDeletedNodes == PipesOfDeletedNodes(d.pipe, 1, n.deletedNodeIds)
        p == DeletePipes(pipes \o pipesOfDeletedNodes, 1,
                 [pipe |-> d.pipe, deleted |-> <<>>])
    IN  Return([d EXCEPT !.node = n.node, !.pipe = p.pipe],
               [nodes |-> n.deleted, pipes |-> p.deleted])

delNode(d, nodeId) ==
    Ok(delete(d, <<[id |-> nodeId]>>, <<>>).d)

RECURSIVE InsertPipes(_, _, _)
\* insert(), second loop: addPipe each pipe, stopping at the first throw
InsertPipes(d, pipes, i) ==
    IF i > Len(pipes) THEN Ok(d)
    ELSE LET r == addPipe(d, pipes[i])
         IN  IF r.thrown # <<>> THEN r ELSE InsertPipes(r.d, pipes, i + 1)

RECURSIVE InsertNodes(_, _, _)
\* insert(), first loop: addNode each node
InsertNodes(d, nodes, i) ==
    IF i > Len(nodes) THEN d
    ELSE InsertNodes(addNode(d, nodes[i].name, nodes[i].id).d, nodes, i + 1)

\* insert undoing what it stored when a pipe is broken
insert_Rollback(d, nodes, pipes) ==
    LET r == InsertPipes(InsertNodes(d, nodes, 1), pipes, 1)
    IN  IF r.thrown # <<>> THEN [r EXCEPT !.d = d] ELSE r

\* Dflow.insert({nodes, pipes})
insert(d, nodes, pipes) == InsertPipes(InsertNodes(d, nodes, 1), pipes, 1)

-----------------------------------------------------------------------------
(* Callables and names *)

\* an optional value (args?: ..., outs?: ...): <<>> when absent, <<v>> when given
None == <<>>

Some(v) == <<v>>

\* an object, as stored in the context map and bound as `this`
Object(tag) == [object |-> tag]

\* null: no object
Null == Object("null")

\* Dflow.Code: a string (a list of words here) or a list of strings
StringCode(words) == [type |-> "string", str |-> words]

ArrayCode(items) == [type |-> "array", items |-> items]

\* code.includes(word): String.prototype.includes on a string (the word occurs
\* in it), Array.prototype.includes on a list (an element equals the word)
CodeIncludes(code, word) ==
    IF code.type = "string"
    THEN \E i \in 1..Len(code.str) : code.str[i] = word
    ELSE \E i \in 1..Len(code.items) : code.items[i] = <<word>>

looksLikeAsyncCode(code) ==
    CodeIncludes(code, "await") /\ ~CodeIncludes(code, "yield")

RECURSIVE JoinWords(_, _)
\* items.join(sep) on lists of words
JoinWords(items, sep) ==
    IF items = <<>> THEN <<>>
    ELSE IF Len(items) = 1 THEN items[1]
    ELSE items[1] \o <<sep>> \o JoinWords(Tail(items), sep)

funcBody(code) ==
    IF code.type = "string" THEN code.str ELSE JoinWords(code.items, ";")

\* a function object: its constructor (Dflow.Func, Dflow.AsyncFunc, ...), its
\* length (number of declared parameters) and its body
Function(ctor, length, body) == [ctor |-> ctor, length |-> length, body |-> body]

\* Dflow.AsyncFunc(...args, body)
AsyncFunc(args, body) == Function("AsyncFunc", Len(args), body)

\* Dflow.Func(...args, body)
Func(args, body) == Function("Func", Len(args), body)

isAsyncFunc(func) == func.ctor = "AsyncFunc"

isFunc(func) == func.ctor = "Func"

\* the number of default argument names setFunc() generates
SetFuncDefaultArgs == 2

\* Array.from({ length }).map((_, i) => `arg${i}`)
DefaultArgNames(length) ==
    [i \in 1..length |-> <<"a", "r", "g">> \o NumberToString(i - 1)]

\* isAvailableNode without the test of the sub-graph templates
isAvailableNode_NoGraphTest(d, name) ==
    ~(name \in d.ioNodes \/ MapHas(d.func, name))

\* TRUE when isAvailableNode(name) returns, FALSE when it throws NodeOverride
isAvailableNode(d, name) ==
    ~(name \in d.ioNodes \/ MapHas(d.func, name) \/ MapHas(d.nodeGraph, name))

setFunc(d, name, func, args) ==
    IF ~isAvailableNode(d, name) THEN Throw(d, NodeOverride(name))
    ELSE LET d1 == [d EXCEPT !.func = MapSet(@, name, func)]
         IN  IF args # None
             THEN Ok([d1 EXCEPT !.nodeArgs = MapSet(@, name, args[1])])
             ELSE IF func.length > 0
             THEN Ok([d1 EXCEPT !.nodeArgs =
                          MapSet(@, name, DefaultArgNames(SetFuncDefaultArgs))])
             ELSE Ok(d1)

setNodeArg(d, name) ==
    IF ~isAvailableNode(d, name) THEN Throw(d, NodeOverride(name))
    ELSE Ok([d EXCEPT !.ioNodes = @ \cup {name}])

\* nodeFunc = [name, args (optional), code]
setNodeFunc(d, nodeFunc) ==
    LET name == nodeFunc.name
        args == nodeFunc.args
        code == nodeFunc.code
    IN  IF ~isAvailableNode(d, name) THEN Throw(d, NodeOverride(name))
        ELSE IF looksLikeAsyncCode(code)
        THEN IF args # None
             THEN LET r == setFunc(d, name, AsyncFunc(args[1], funcBody(code)), args)
                  IN  IF r.thrown # <<>> THEN r
                      ELSE Ok([r.d EXCEPT !.nodeArgs = MapSet(@, name, args[1])])
             ELSE setFunc(d, name, AsyncFunc(<<>>, funcBody(code)), None)
        ELSE IF args # None
             THEN setFunc(d, name, Func(args[1], funcBody(code)), None)
             ELSE setFunc(d, name, Func(<<>>, funcBody(code)), None)

\* nodeGraph = [name, args (optional), outs (optional), nodes, pipes]
setNodeGraph(d, nodeGraph) ==
    LET name == nodeGraph.name
    IN  IF ~isAvailableNode(d, name) THEN Throw(d, NodeOverride(name))
        ELSE LET d1 == IF nodeGraph.args # None
                       THEN [d EXCEPT !.nodeArgs = MapSet(@, name, nodeGraph.args[1])]
                       ELSE d
                 d2 == IF nodeGraph.outs # None
                       THEN [d1 EXCEPT !.nodeOuts = MapSet(@, name, nodeGraph.outs[1])]
                       ELSE d1
             IN  Ok([d2 EXCEPT !.nodeGraph = MapSet(@, name, nodeGraph)])

setNodeOut(d, name) ==
    IF ~isAvailableNode(d, name) THEN Throw(d, NodeOverride(name))
    ELSE Ok([d EXCEPT !.nodeArgs = MapSet(@, name, <<<<"o", "u", "t">>>>),
                      !.ioNodes = @ \cup {name}])

-----------------------------------------------------------------------------
(* Construction and inheritance *)

RECURSIVE SetNodeArgs(_, _, _)
\* constructor: for (const arg of args) this.setNodeArg(arg)
SetNodeArgs(d, args, i) ==
    IF i > Len(args) THEN Ok(d)
    ELSE LET r == setNodeArg(d, args[i])
         IN  IF r.thrown # <<>> THEN r ELSE SetNodeArgs(r.d, args, i + 1)

RECURSIVE SetNodeOuts(_, _, _)
\* constructor: for (const out of outs) this.setNodeOut(out)
SetNodeOuts(d, outs, i) ==
    IF i > Len(outs) THEN Ok(d)
    ELSE LET r == setNodeOut(d, outs[i])
         IN  IF r.thrown # <<>> THEN r ELSE SetNodeOuts(r.d, outs, i + 1)

\* the default argument of the constructor
DefaultNodeGraph ==
    [name |-> <<>>, args |-> None, outs |-> None, nodes |-> <<>>, pipes |-> <<>>]

\* new Dflow(nodeGraph): the instance, or what the constructor threw
construct(nodeGraph) ==
    LET d0 == [EmptyDflow EXCEPT !.name = nodeGraph.name]
        a == IF nodeGraph.args # None THEN SetNodeArgs(d0, nodeGraph.args[1], 1)
             ELSE Ok(d0)
        d1 == [a.d EXCEPT !.args = nodeGraph.args]
        o == IF nodeGraph.outs # None THEN SetNodeOuts(d1, nodeGraph.outs[1], 1)
             ELSE Ok(d1)
        d2 == [o.d EXCEPT !.outs = nodeGraph.outs]
    IN  IF a.thrown # <<>> THEN a
        ELSE IF o.thrown # <<>> THEN o
        ELSE insert(d2, nodeGraph.nodes, nodeGraph.pipes)

\* toValue(): the node graph of the instance
toValue(d) ==
    [name |-> d.name, args |-> d.args, outs |-> d.outs,
     nodes |-> [i \in 1..Len(d.node) |-> [id |-> d.node[i][1], name |-> d.node[i][2]]],
     pipes |-> [i \in 1..Len(d.pipe) |-> pipeIdToPipe(d.pipe[i])]]

\* toString printing the lists as they are, `undefined` when absent
toString_NoDefault(d) ==
    LET value == toValue(d)
        length(list) == IF list = None THEN <<"u", "n", "d", "e", "f", "i", "n", "e", "d">>
                        ELSE NumberToString(Len(list[1]))
    IN  <<"D", "f", "l", "o", "w", " ", "n", "a", "m", "e", "=">> \o value.name
            \o <<" ", "a", "r", "g", "s", "=">> \o length(value.args)
            \o <<" ", "n", "o", "d", "e", "s", "=">> \o NumberToString(Len(value.nodes))
            \o <<" ", "p", "i", "p", "e", "s", "=">> \o NumberToString(Len(value.pipes))
            \o <<" ", "o", "u", "t", "s", "=">> \o length(value.outs)

\* toString(): `Dflow name=... args=... nodes=... pipes=... outs=...`, with
\* args?.length ?? 0 and outs?.length ?? 0
toString(d) ==
    LET value == toValue(d)
        length(list) == IF list = None THEN 0 ELSE Len(list[1])
    IN  <<"D", "f", "l", "o", "w", " ", "n", "a", "m", "e", "=">> \o value.name
            \o <<" ", "a", "r", "g", "s", "=">> \o NumberToString(length(value.args))
            \o <<" ", "n", "o", "d", "e", "s", "=">> \o NumberToString(Len(value.nodes))
            \o <<" ", "p", "i", "p", "e", "s", "=">> \o NumberToString(Len(value.pipes))
            \o <<" ", "o", "u", "t", "s", "=">> \o NumberToString(length(value.outs))

RECURSIVE InheritFuncs(_, _, _)
\* inherit(): the loop over the parent's func entries
InheritFuncs(d, parent, i) ==
    IF i > Len(parent.func) THEN d
    ELSE LET funcName == parent.func[i][1]
             func == parent.func[i][2]
             d1 == IF MapHas(parent.nodeArgs, funcName)
                   THEN [d EXCEPT !.nodeArgs =
                            MapSet(@, funcName, MapGet(parent.nodeArgs, funcName))]
                   ELSE d
             d2 == IF MapHas(parent.context, funcName)
                         /\ MapGet(parent.context, funcName) # Null
                   THEN [d1 EXCEPT !.context =
                            MapSet(@, funcName, MapGet(parent.context, funcName))]
                   ELSE d1
         IN  IF funcName \in d.ioNodes THEN InheritFuncs(d, parent, i + 1)
             ELSE InheritFuncs([d2 EXCEPT !.func = MapSet(@, funcName, func)],
                               parent, i + 1)

\* inherit taking over the three tables of the parent as they are
inherit_WholeTables(d, parent) ==
    [d EXCEPT !.func = parent.func, !.nodeArgs = parent.nodeArgs,
              !.context = parent.context]

\* inherit copying also the templates of the parent, but for the one the
\* instance was built from
inherit_Templates(d, parent) ==
    [InheritFuncs(d, parent, 1) EXCEPT !.nodeGraph = MapDelete(parent.nodeGraph, d.name)]

inherit(d, parent) == InheritFuncs(d, parent, 1)

\* createGraph making a new instance at every call, also when the node has one
createGraph_Recreate(d, nodeId, nodeGraph) ==
    IF nodeGraph = None THEN Ok(d)
    ELSE LET g == construct(nodeGraph[1])
         IN  IF g.thrown # <<>> THEN Throw(d, g.thrown[1])
             ELSE Ok([d EXCEPT !.graph = MapSet(@, nodeId, inherit(g.d, d))])

\* createGraph storing one more instance for a node that has one
createGraph_Append(d, nodeId, nodeGraph) ==
    IF nodeGraph = None THEN Ok(d)
    ELSE LET g == construct(nodeGraph[1])
         IN  IF g.thrown # <<>> THEN Throw(d, g.thrown[1])
             ELSE Ok([d EXCEPT !.graph = Append(@, <<nodeId, inherit(g.d, d)>>)])

\* createGraph(nodeId, nodeGraph) with nodeGraph = this.nodeGraph.get(nodeName),
\* None when there is no such template
createGraph(d, nodeId, nodeGraph) ==
    IF nodeGraph = None THEN Ok(d)
    ELSE IF MapHas(d.graph, nodeId) THEN Ok(d)
    ELSE LET g == construct(nodeGraph[1])
         IN  IF g.thrown # <<>> THEN Throw(d, g.thrown[1])
             ELSE Ok([d EXCEPT !.graph = MapSet(@, nodeId, inherit(g.d, d))])

-----------------------------------------------------------------------------
(* Values, calls and argument collection *)

\* the value a call returns: which body ran, with which receiver and
\* which parameter values
Value(body, this, args) == [body |-> body, this |-> this, args |-> args]

Undefined == Value(<<"undefined">>, Null, <<>>)

\* a function whose body has a throw statement throws when called
Throws(func) == \E i \in 1..Len(func.body) : func.body[i] = "throw"

\* the message of the error it throws: the words after `throw`
ThrownMessage(func) ==
    LET k == CHOOSE i \in 1..Len(func.body) : func.body[i] = "throw"
    IN  SubSeq(func.body, k + 1, Len(func.body))

\* func.apply(context, argValues): the declared parameters take the values
\* in order, a missing one is undefined, extra ones are dropped
Apply(func, context, argValues) ==
    Value(func.body, context,
          [i \in 1..func.length |->
              IF i <= Len(argValues) THEN argValues[i] ELSE Undefined])

\* this.out.get(pinId)
OutGet(out, pinId) == IF MapHas(out, pinId) THEN MapGet(out, pinId) ELSE Undefined

\* argValues reading the cache at the id of the source node of each pipe
argValues_SourceNode(d, nodeId) ==
    IF ~(MapHas(d.node, nodeId) /\ MapGet(d.node, nodeId) # <<>>)
    THEN [thrown |-> <<NodeNotFound(nodeId)>>, values |-> <<>>]
    ELSE LET nodeName == MapGet(d.node, nodeId)
         IN  IF ~MapHas(d.nodeArgs, nodeName)
             THEN [thrown |-> <<>>, values |-> <<>>]
             ELSE LET argNames == MapGet(d.nodeArgs, nodeName)
                  IN  [thrown |-> <<>>,
                       values |->
                          [i \in 1..Len(argNames) |->
                              LET toId == pinToPinId(ArrayPin(nodeId, i - 1))
                              IN  IF MapHas(d.pipe, toId) /\ MapGet(d.pipe, toId) # <<>>
                                  THEN OutGet(d.out,
                                           nodeIdOfPin(pinIdToPin(MapGet(d.pipe, toId))))
                                  ELSE Undefined]]

\* argValues(nodeId): [thrown, values]
argValues(d, nodeId) ==
    IF ~(MapHas(d.node, nodeId) /\ MapGet(d.node, nodeId) # <<>>)
    THEN [thrown |-> <<NodeNotFound(nodeId)>>, values |-> <<>>]
    ELSE LET nodeName == MapGet(d.node, nodeId)
         IN  IF ~MapHas(d.nodeArgs, nodeName)
             THEN [thrown |-> <<>>, values |-> <<>>]
             ELSE LET argNames == MapGet(d.nodeArgs, nodeName)
                  IN  [thrown |-> <<>>,
                       values |->
                          [i \in 1..Len(argNames) |->
                              LET toId == pinToPinId(ArrayPin(nodeId, i - 1))
                              IN  IF MapHas(d.pipe, toId) /\ MapGet(d.pipe, toId) # <<>>
                                  THEN OutGet(d.out,
                                           pinToPinId(StringPin(MapGet(d.pipe, toId))))
                                  ELSE Undefined]]

\* this.node.get(nodeId) ?? ""
NodeNameOrEmpty(d, nodeId) ==
    IF MapHas(d.node, nodeId) THEN MapGet(d.node, nodeId) ELSE <<>>

\* ContextOf looking under the name first
ContextOf_NameFirst(d, nodeId, nodeName) ==
    IF MapHas(d.context, nodeName) /\ MapGet(d.context, nodeName) # Null
    THEN MapGet(d.context, nodeName)
    ELSE IF MapHas(d.context, nodeId) THEN MapGet(d.context, nodeId)
    ELSE Null

\* this.context.get(nodeId) ?? this.context.get(nodeName): `??` takes the
\* right side when the left one is undefined (no entry) or null; runFunc()
\* turns undefined into null
ContextOf(d, nodeId, nodeName) ==
    IF MapHas(d.context, nodeId) /\ MapGet(d.context, nodeId) # Null
    THEN MapGet(d.context, nodeId)
    ELSE IF MapHas(d.context, nodeName) THEN MapGet(d.context, nodeName)
    ELSE Null

-----------------------------------------------------------------------------
(* Error messages *)

\* `${pin}` of a pin: the string itself, or the array joined with a comma
PinToString(pin) ==
    IF pin.type = "string" THEN pin.str
    ELSE pin.nodeId \o <<Comma>> \o NumberToString(pin.position)

\* the engine's call stack overflowed
RangeError ==
    [errorName |-> "RangeError",
     message |-> <<"Maximum call stack size exceeded">>]

NodeExecutionMessage(nodeId, nodeName, nodeErrorMessage) ==
    <<"Execution error on DflowNode name=">> \o nodeName \o <<" id=">> \o nodeId
        \o <<" error.message=">> \o nodeErrorMessage

\* error.message
ErrorMessage(error) ==
    CASE error.errorName = "DflowErrorBrokenPipe" ->
             <<"Broken DflowPipe from=">> \o PinToString(error.pipe.from)
                 \o <<" to=">> \o PinToString(error.pipe.to)
      [] error.errorName = "DflowErrorNodeExecution" ->
             NodeExecutionMessage(error.nodeId, error.nodeName, error.nodeErrorMessage)
      [] error.errorName = "DflowErrorNodeNotFound" ->
             <<"Not found DflowNode nodeId=">> \o error.nodeId
      [] error.errorName = "DflowErrorNodeOverride" ->
             <<"Cannot override existing DflowNode name=">> \o error.nodeName
      [] OTHER -> error.message

-----------------------------------------------------------------------------
(* The scheduler: levels and the sorted node list *)

\* the depth of nested calls the engine's stack holds
StackLimit == 6

\* the result of a level computation that overflowed the stack
StackOverflow == -1

\* parentNodeIds(nodeId, pipes): the sources of the pipes that target nodeId
parentNodeIds(nodeId, pipes) ==
    LET inbound == SelectSeq(pipes, LAMBDA pipe : nodeIdOfPin(pipe.to) = nodeId)
    IN  [i \in 1..Len(inbound) |-> nodeIdOfPin(inbound[i].from)]

RECURSIVE MaxParentLevel(_, _, _, _, _)
RECURSIVE levelOfNodeAt(_, _, _)

\* levelOfNode(): the loop over the parents, maxLevel so far; StackOverflow
\* as soon as one recursive call overflows
MaxParentLevel(parents, i, pipes, depth, maxLevel) ==
    IF i > Len(parents) THEN maxLevel
    ELSE LET level == levelOfNodeAt(parents[i], pipes, depth + 1)
         IN  IF level = StackOverflow THEN StackOverflow
             ELSE MaxParentLevel(parents, i + 1, pipes, depth,
                                 IF level > maxLevel THEN level ELSE maxLevel)

\* levelOfNode(nodeId, pipes) called at stack depth `depth`
levelOfNodeAt(nodeId, pipes, depth) ==
    IF depth > StackLimit THEN StackOverflow
    ELSE LET parentsNodeIds == parentNodeIds(nodeId, pipes)
         IN  IF Len(parentsNodeIds) = 0 THEN 0
             ELSE LET maxLevel == MaxParentLevel(parentsNodeIds, 1, pipes, depth, 0)
                  IN  IF maxLevel = StackOverflow THEN StackOverflow
                      ELSE maxLevel + 1

\* levelOfNode looking at the node's own pipes only: 1 for a node with parents
levelOfNode_OwnPipesOnly(nodeId, pipes) ==
    IF Len(parentNodeIds(nodeId, pipes)) = 0 THEN 0 ELSE 1

levelOfNode(nodeId, pipes) == levelOfNodeAt(nodeId, pipes, 1)

\* the bijections of 1..n
Bijections(n) ==
    {p \in [1..n -> 1..n] : \A i, j \in 1..n : p[i] = p[j] => i = j}

\* a sort that keeps one node per level, the first inserted
SortByLevel_OnePerLevel(nodes, level) ==
    LET kept == SelectSeq([i \in 1..Len(nodes) |-> i],
                          LAMBDA i : \A j \in 1..(i - 1) : level[j] # level[i])
    IN  {[k \in 1..Len(kept) |-> nodes[kept[p[k]]]] :
            p \in {q \in Bijections(Len(kept)) :
                      \A k \in 1..(Len(kept) - 1) :
                          level[kept[q[k]]] <= level[kept[q[k + 1]]]}}

\* the arrangements of `nodes` that nodes.sort(compare) can return, with
\* compare(a, b) = levelOfNode[a] <= levelOfNode[b] ? -1 : 1.  The comparator
\* never returns 0, so it is not a consistent comparator and the order of
\* nodes of equal level is left to the engine's sort (an insertion or merge
\* sort that asks compare(later, earlier) moves the later one in front; one
\* that asks compare(earlier, later) keeps them); every engine returns the
\* levels in ascending order.
SortByLevel(nodes, level) ==
    {[i \in 1..Len(nodes) |-> nodes[p[i]]] :
        p \in {q \in Bijections(Len(nodes)) :
                  \A i \in 1..(Len(nodes) - 1) : level[q[i]] <= level[q[i + 1]]}}

\* get nodes(): [thrown, sorted], sorted the set of lists the getter can return
getNodes(d) ==
    LET pipes == [i \in 1..Len(d.pipe) |-> pipeIdToPipe(d.pipe[i])]
        entries == d.node
        level == [i \in 1..Len(entries) |-> levelOfNode(entries[i][1], pipes)]
    IN  IF \E i \in 1..Len(entries) : level[i] = StackOverflow
        THEN [thrown |-> <<RangeError>>, sorted |-> {}]
        ELSE [thrown |-> <<>>, sorted |-> SortByLevel(entries, level)]

-----------------------------------------------------------------------------
(* The dispatcher and the driver *)

\* what a step of a run did: the engine afterwards, the error thrown (if
\* any) and the log of what happened on the way
Ran(d, error, log) == [d |-> d, thrown |-> error, log |-> log]

\* a log entry: a node was dispatched, its callable was called, the
\* arguments of a sub-graph were injected, its outputs were extracted;
\* `graph` is the list of sub-graph nodes the entry is nested in
Event(type, nodeId) == [type |-> type, nodeId |-> nodeId, graph |-> <<>>]

\* the log entry of step 1 of runGraph(): the arguments of graphId were
\* injected, `instance` is the sub-graph instance at that moment
Injected(graphId, instance) ==
    [type |-> "inject", nodeId |-> graphId, graph |-> <<>>, instance |-> instance]

\* the log entry of step 3 of runGraph(): the outputs of graphId were
\* extracted from `instance`, the sub-graph instance after its run
Extracted(graphId, instance) ==
    [type |-> "extract", nodeId |-> graphId, graph |-> <<>>, instance |-> instance]

\* the log of a nested run, seen from the parent node graphId
Nested(log, graphId) ==
    [i \in 1..Len(log) |-> [log[i] EXCEPT !.graph = <<graphId>> \o @]]

\* runFunc but writing the result before the call can throw
runFunc_WriteFirst(d, nodeId, func, context) ==
    IF func = None THEN Ran(d, <<>>, <<>>)
    ELSE LET a == argValues(d, nodeId)
         IN  IF a.thrown # <<>> THEN Ran(d, a.thrown, <<>>)
             ELSE IF isAsyncFunc(func[1]) \/ isFunc(func[1])
             THEN Ran([d EXCEPT !.out =
                          MapSet(@, nodeId, Apply(func[1], context, a.values))],
                      IF Throws(func[1])
                      THEN <<NodeExecution(nodeId, NodeNameOrEmpty(d, nodeId),
                                           ThrownMessage(func[1]))>>
                      ELSE <<>>,
                      <<Event("call", nodeId)>>)
             ELSE Ran(d, <<>>, <<>>)

\* runFunc calling the callable whatever its constructor is
runFunc_AnyFunc(d, nodeId, func, context) ==
    IF func = None THEN Ran(d, <<>>, <<>>)
    ELSE LET a == argValues(d, nodeId)
         IN  IF a.thrown # <<>> THEN Ran(d, a.thrown, <<>>)
             ELSE IF Throws(func[1])
             THEN Ran(d, <<NodeExecution(nodeId, NodeNameOrEmpty(d, nodeId),
                                         ThrownMessage(func[1]))>>,
                      <<Event("call", nodeId)>>)
             ELSE Ran([d EXCEPT !.out =
                          MapSet(@, nodeId, Apply(func[1], context, a.values))],
                      <<>>, <<Event("call", nodeId)>>)

\* runFunc throwing NodeNotFound for a node whose name has no callable
runFunc_RequireFunc(d, nodeId, func, context) ==
    IF func = None THEN Ran(d, <<NodeNotFound(nodeId)>>, <<>>)
    ELSE LET a == argValues(d, nodeId)
         IN  IF a.thrown # <<>> THEN Ran(d, a.thrown, <<>>)
             ELSE IF isAsyncFunc(func[1]) \/ isFunc(func[1])
             THEN IF Throws(func[1])
                  THEN Ran(d, <<NodeExecution(nodeId, NodeNameOrEmpty(d, nodeId),
                                              ThrownMessage(func[1]))>>,
                           <<Event("call", nodeId)>>)
                  ELSE Ran([d EXCEPT !.out =
                               MapSet(@, nodeId, Apply(func[1], context, a.values))],
                           <<>>, <<Event("call", nodeId)>>)
             ELSE Ran(d, <<>>, <<>>)

\* runFunc(nodeId, func, context) with func = this.func.get(nodeName), None
\* when there is no such callable
runFunc(d, nodeId, func, context) ==
    IF func = None THEN Ran(d, <<>>, <<>>)
    ELSE LET a == argValues(d, nodeId)
         IN  IF a.thrown # <<>> THEN Ran(d, a.thrown, <<>>)
             ELSE IF isAsyncFunc(func[1]) \/ isFunc(func[1])
             THEN IF Throws(func[1])
                  THEN Ran(d, <<NodeExecution(nodeId, NodeNameOrEmpty(d, nodeId),
                                              ThrownMessage(func[1]))>>,
                           <<Event("call", nodeId)>>)
                  ELSE Ran([d EXCEPT !.out =
                               MapSet(@, nodeId, Apply(func[1], context, a.values))],
                           <<>>, <<Event("call", nodeId)>>)
             ELSE Ran(d, <<>>, <<>>)

RECURSIVE InjectArgs_AtBareId(_, _, _, _)
\* InjectArgs writing every argument at the bare id of its marker node
InjectArgs_AtBareId(graph, argNames, values, k) ==
    IF k >= Len(graph.node) * Len(argNames) THEN graph
    ELSE LET entry == graph.node[(k \div Len(argNames)) + 1]
             position == k % Len(argNames)
         IN  IF entry[2] = argNames[position + 1]
             THEN InjectArgs_AtBareId(
                      [graph EXCEPT !.out =
                          MapSet(@, pinToPinId(StringPin(entry[1])),
                                 IF position + 1 <= Len(values)
                                 THEN values[position + 1] ELSE Undefined)],
                      argNames, values, k + 1)
             ELSE InjectArgs_AtBareId(graph, argNames, values, k + 1)

RECURSIVE InjectArgs(_, _, _, _)
\* runGraph(), step 1: the loops over graph.node.entries() and the positions;
\* k counts the (entry, position) pairs
InjectArgs(graph, argNames, values, k) ==
    IF k >= Len(graph.node) * Len(argNames) THEN graph
    ELSE LET entry == graph.node[(k \div Len(argNames)) + 1]
             position == k % Len(argNames)
         IN  IF entry[2] = argNames[position + 1]
             THEN InjectArgs(
                      [graph EXCEPT !.out =
                          MapSet(@, pinToPinId(ArrayPin(entry[1], position)),
                                 IF position + 1 <= Len(values)
                                 THEN values[position + 1] ELSE Undefined)],
                      argNames, values, k + 1)
             ELSE InjectArgs(graph, argNames, values, k + 1)

RECURSIVE ExtractOuts(_, _, _, _, _)
\* runGraph(), step 3: the loops over graph.node.entries() and the positions
ExtractOuts(d, graphId, graph, outs, k) ==
    IF k >= Len(graph.node) * Len(outs) THEN d
    ELSE LET entry == graph.node[(k \div Len(outs)) + 1]
             position == k % Len(outs)
             nodeId == entry[1]
         IN  IF entry[2] = outs[position + 1]
                  /\ MapHas(d.pipe, nodeId) /\ MapGet(d.pipe, nodeId) # <<>>
             THEN ExtractOuts(
                      [d EXCEPT !.out =
                          MapSet(@, pinToPinId(ArrayPin(graphId, position)),
                                 OutGet(graph.out,
                                        pinToPinId(StringPin(MapGet(d.pipe, nodeId)))))],
                      graphId, graph, outs, k + 1)
             ELSE ExtractOuts(d, graphId, graph, outs, k + 1)

RECURSIVE runAll(_)
RECURSIVE runLoop(_, _, _, _)
RECURSIVE runStep(_, _, _)
RECURSIVE runNode(_, _, _)
RECURSIVE runGraph(_, _, _)

\* runGraph passing on the error of the nested run as it is
runGraph_Rethrow(d, graphId, key) ==
    IF key = None THEN {Ran(d, <<>>, <<>>)}
    ELSE LET a == argValues(d, graphId)
             graph == MapGet(d.graph, key[1])
             injected == IF graph.args # None
                         THEN InjectArgs(graph, graph.args[1], a.values, 0)
                         ELSE graph
         IN  IF a.thrown # <<>> THEN {Ran(d, a.thrown, <<>>)}
             ELSE {LET d1 == [d EXCEPT !.graph = MapSet(@, key[1], r.d)]
                       log == <<Injected(graphId, injected)>> \o Nested(r.log, graphId)
                   IN  IF r.thrown # <<>> THEN Ran(d1, r.thrown, log)
                       ELSE Ran(IF r.d.outs # None
                                THEN ExtractOuts(d1, graphId, r.d, r.d.outs[1], 0)
                                ELSE d1,
                                <<>>, log \o <<Extracted(graphId, r.d)>>)
                   : r \in runAll(injected)}

\* runGraph extracting the outputs before the nested run
runGraph_ExtractFirst(d, graphId, key) ==
    IF key = None THEN {Ran(d, <<>>, <<>>)}
    ELSE LET a == argValues(d, graphId)
             graph == MapGet(d.graph, key[1])
             injected == IF graph.args # None
                         THEN InjectArgs(graph, graph.args[1], a.values, 0)
                         ELSE graph
             d0 == IF graph.outs # None
                   THEN ExtractOuts(d, graphId, injected, graph.outs[1], 0)
                   ELSE d
         IN  IF a.thrown # <<>> THEN {Ran(d, a.thrown, <<>>)}
             ELSE {LET d1 == [d0 EXCEPT !.graph = MapSet(@, key[1], r.d)]
                       log == <<Injected(graphId, injected), Extracted(graphId, injected)>>
                                  \o Nested(r.log, graphId)
                   IN  IF r.thrown # <<>>
                       THEN Ran(d1, <<NodeExecution(graphId, NodeNameOrEmpty(d, graphId),
                                                    ErrorMessage(r.thrown[1]))>>, log)
                       ELSE Ran(d1, <<>>, log)
                   : r \in runAll(injected)}

\* runGraph(graphId, graph) with graph = this.graph.get(key), None when the
\* map has no such key: the set of its possible outcomes
runGraph(d, graphId, key) ==
    IF key = None THEN {Ran(d, <<>>, <<>>)}
    ELSE LET a == argValues(d, graphId)
             graph == MapGet(d.graph, key[1])
             injected == IF graph.args # None
                         THEN InjectArgs(graph, graph.args[1], a.values, 0)
                         ELSE graph
         IN  IF a.thrown # <<>> THEN {Ran(d, a.thrown, <<>>)}
             ELSE {LET d1 == [d EXCEPT !.graph = MapSet(@, key[1], r.d)]
                       log == <<Injected(graphId, injected)>> \o Nested(r.log, graphId)
                   IN  IF r.thrown # <<>>
                       THEN Ran(d1, <<NodeExecution(graphId, NodeNameOrEmpty(d, graphId),
                                                    ErrorMessage(r.thrown[1]))>>, log)
                       ELSE Ran(IF r.d.outs # None
                                THEN ExtractOuts(d1, graphId, r.d, r.d.outs[1], 0)
                                ELSE d1,
                                <<>>, log \o <<Extracted(graphId, r.d)>>)
                   : r \in runAll(injected)}

\* runNode(nodeId, nodeName)
runNode(d, nodeId, nodeName) ==
    LET f == runFunc(d, nodeId,
                     IF MapHas(d.func, nodeName)
                     THEN Some(MapGet(d.func, nodeName)) ELSE None,
                     ContextOf(d, nodeId, nodeName))
    IN  IF f.thrown # <<>> THEN {f}
        ELSE {Ran(g.d, g.thrown, f.log \o g.log) :
                 g \in runGraph(f.d, nodeId,
                                IF MapHas(f.d.graph, nodeName)
                                THEN Some(nodeName) ELSE None)}

\* the body of the loop of run() for one node
runStep(d, nodeId, nodeName) ==
    LET c == createGraph(d, nodeId,
                         IF MapHas(d.nodeGraph, nodeName)
                         THEN Some(MapGet(d.nodeGraph, nodeName)) ELSE None)
    IN  IF c.thrown # <<>> THEN {Ran(d, c.thrown, <<>>)}
        ELSE {Ran(r.d, r.thrown, <<Event("dispatch", nodeId)>> \o r.log) :
                 r \in runNode(c.d, nodeId, nodeName)}

\* the loop of run() from the i-th node of the sorted list on
runLoop(d, sorted, i, log) ==
    IF i > Len(sorted) THEN {Ran(d, <<>>, log)}
    ELSE UNION {IF r.thrown # <<>> THEN {Ran(r.d, r.thrown, log \o r.log)}
                ELSE runLoop(r.d, sorted, i + 1, log \o r.log) :
                   r \in runStep(d, sorted[i][1], sorted[i][2])}

\* run() to its end: the set of its possible outcomes
runAll(d) ==
    LET n == getNodes(d)
    IN  IF n.thrown # <<>> THEN {Ran(d, n.thrown, <<>>)}
        ELSE UNION {runLoop(d, sorted, 1, <<>>) : sorted \in n.sorted}

-----------------------------------------------------------------------------
(* The store operations as actions, with their inputs *)

NodeIds == {<<"a">>, <<"b">>}

\* the node names the store operations are called with: a name and the
\* empty string (which the truthiness tests of delete() and argValues() see
\* as no name)
StoreNames == {<<"f">>, <<>>}

Pins == {StringPin(id) : id \in NodeIds}
            \cup {ArrayPin(id, position) : id \in NodeIds, position \in 0..MaxPos}

Pipes == [from : Pins, to : Pins]

\* the lists of at most n elements of S
ListsOf(S, n) == UNION {[1..k -> S] : k \in 0..n}

\* the run process before run() is called: `ended` lists the outcomes of
\* the runs that have ended, `pending` the calls of async callables that
\* have not settled
Idle ==
    [pc |-> "idle", sorted |-> <<>>, i |-> 0, log |-> <<>>, ended |-> <<>>,
     pending |-> <<>>]

\* the state after `new Dflow()`
InitStore ==
    /\ dflow = construct(DefaultNodeGraph).d
    /\ thrown = <<>>
    /\ returned = <<>>
    /\ task = Idle

\* the effect of a call whose outcome is r
Outcome(r) ==
    /\ dflow' = r.d
    /\ thrown' = r.thrown
    /\ returned' = r.returned
    /\ UNCHANGED task

AddNode(name, id) == Outcome(addNode(dflow, name, id))

AddPipe(pipe) ==
    /\ Len(dflow.pipe) < MaxPipes \/ MapHas(dflow.pipe, pinToPinId(pipe.to))
    /\ Outcome(addPipe(dflow, pipe))

DelPipe(to) == Outcome(delPipe(dflow, to))

DelNode(nodeId) == Outcome(delNode(dflow, nodeId))

Delete(nodes, pipes) == Outcome(delete(dflow, nodes, pipes))

Insert(nodes, pipes) ==
    /\ Len(dflow.pipe) + Len(pipes) <= MaxPipes
    /\ Outcome(insert(dflow, nodes, pipes))

NextStore ==
    \/ \E name \in StoreNames, id \in NodeIds : AddNode(name, id)
    \/ \E pipe \in Pipes : AddPipe(pipe)
    \/ \E to \in Pins : DelPipe(to)
    \/ \E id \in NodeIds : DelNode(id)
    \/ \E nodes \in ListsOf([id : NodeIds], MaxList + 1),
          pipes \in ListsOf([to : Pins], MaxList) : Delete(nodes, pipes)
    \/ \E nodes \in ListsOf([id : NodeIds, name : StoreNames], MaxList),
          pipes \in ListsOf(Pipes, MaxList) : Insert(nodes, pipes)

SpecStore == InitStore /\ [][NextStore]_vars

-----------------------------------------------------------------------------
(* insert() with lists of several nodes and pipes *)

\* the lists of pipes passed to insert() have at most MaxInsert elements
MaxInsert == 3

ListedPipeInputs ==
    [from : {StringPin(id) : id \in NodeIds},
     to : {StringPin(<<"a">>), ArrayPin(<<"b">>, 1)}]

InsertMany(nodes, pipes) == Outcome(insert(dflow, nodes, pipes))

NextInsert ==
    \/ \E nodes \in ListsOf([id : NodeIds, name : StoreNames], MaxList + 1),
          pipes \in ListsOf(ListedPipeInputs, MaxInsert) : InsertMany(nodes, pipes)
    \/ \E id \in NodeIds : DelNode(id)

SpecInsert == InitStore /\ [][NextInsert]_vars

-----------------------------------------------------------------------------
(* The name-binding operations as actions, with their inputs *)

Names == {<<"x">>, <<"y">>, <<"z">>}

ArgP == <<"p">>

ArgQ == <<"q">>

ArgR == <<"r">>

\* the callables setFunc() is called with: a sync one without parameters and
\* an async one with three
FuncInputs ==
    {Function("Func", 0, <<"return", "1">>),
     Function("AsyncFunc", 3, <<"return", "await", "p">>)}

ArgsInputs == {None, Some(<<ArgP>>)}

NodeFuncInputs ==
    [name : Names,
     args : {None, Some(<<ArgP, ArgQ, ArgR>>)},
     code : {StringCode(<<"return", "p">>), StringCode(<<"return", "await", "p">>)}]

NodeGraphInputs ==
    {[name |-> name, args |-> io[1], outs |-> io[2], nodes |-> <<>>, pipes |-> <<>>] :
        name \in Names,
        io \in {<<None, None>>, <<Some(<<<<"i">>>>), Some(<<<<"o">>>>)>>}}

SetFunc(name, func, args) == Outcome(setFunc(dflow, name, func, args))

SetNodeArg(name) == Outcome(setNodeArg(dflow, name))

SetNodeFunc(nodeFunc) == Outcome(setNodeFunc(dflow, nodeFunc))

SetNodeGraph(nodeGraph) == Outcome(setNodeGraph(dflow, nodeGraph))

SetNodeOut(name) == Outcome(setNodeOut(dflow, name))

NextNames ==
    \/ \E name \in Names, func \in FuncInputs, args \in ArgsInputs :
           SetFunc(name, func, args)
    \/ \E name \in Names : SetNodeArg(name)
    \/ \E nodeFunc \in NodeFuncInputs : SetNodeFunc(nodeFunc)
    \/ \E nodeGraph \in NodeGraphInputs : SetNodeGraph(nodeGraph)
    \/ \E name \in Names : SetNodeOut(name)

\* from `new Dflow()`, the name-binding operations in any order
SpecNames == InitStore /\ [][NextNames]_vars

-----------------------------------------------------------------------------
(* run() as a process: one step per iteration of its loop *)

\* run() picking up at the node where the last run stopped
StartRun_Resume(ended) ==
    /\ LET n == getNodes(dflow)
       IN  IF n.thrown # <<>>
           THEN /\ task' = [task EXCEPT !.pc = "failed", !.ended = ended]
                /\ thrown' = n.thrown
           ELSE /\ \E sorted \in n.sorted :
                       task' = [pc |-> "running", sorted |-> sorted,
                                i |-> IF task.i >= 1 /\ task.i <= Len(sorted)
                                      THEN task.i ELSE 1,
                                log |-> <<>>, ended |-> ended,
                                pending |-> <<>>]
                /\ thrown' = <<>>
    /\ returned' = <<>>
    /\ UNCHANGED dflow

\* the call of run(): the node list is sorted once, or the getter throws;
\* `ended` are the outcomes of the runs before this one
StartRun(ended) ==
    /\ LET n == getNodes(dflow)
       IN  IF n.thrown # <<>>
           THEN /\ task' = [task EXCEPT !.pc = "failed", !.ended = ended]
                /\ thrown' = n.thrown
           ELSE /\ \E sorted \in n.sorted :
                       task' = [pc |-> "running", sorted |-> sorted, i |-> 1,
                                log |-> <<>>, ended |-> ended,
                                pending |-> <<>>]
                /\ thrown' = <<>>
    /\ returned' = <<>>
    /\ UNCHANGED dflow

\* the first call of run()
RunStart ==
    /\ task.pc = "idle"
    /\ StartRun(task.ended)

\* one iteration of the loop: createGraph and runNode for the next node
RunNext ==
    /\ task.pc = "running"
    /\ task.i <= Len(task.sorted)
    /\ \E r \in runStep(dflow, task.sorted[task.i][1], task.sorted[task.i][2]) :
           /\ dflow' = r.d
           /\ thrown' = r.thrown
           /\ task' = [task EXCEPT !.log = @ \o r.log,
                                   !.i = IF r.thrown = <<>> THEN @ + 1 ELSE @,
                                   !.pc = IF r.thrown = <<>> THEN @ ELSE "failed"]
    /\ UNCHANGED returned

\* the loop is over: run() resolves
RunReturn ==
    /\ task.pc = "running"
    /\ task.i > Len(task.sorted)
    /\ task' = [task EXCEPT !.pc = "done"]
    /\ UNCHANGED <<dflow, thrown, returned>>

NextRun == RunStart \/ RunNext \/ RunReturn

\* run() is suspended at `await this.runNode(nodeId, nodeName)`: it runs
\* without interruption from its call to the first await, and every await
\* suspends it, also when the promise it awaits has settled already
RunSuspended == task.pc = "running" /\ task.i > 1

\* another task (the caller of run() going on, a job of another promise)
\* acts only while no run() is executing
OtherTaskCanAct == task.pc # "running" \/ RunSuspended

\* the number of parameters of the widest callable, and of input pins of a
\* node, in the graphs that are run
MaxArity == 3

\* the graphs that are run have at most MaxRunPipes pipes
MaxRunPipes == 2

\* the nodes of the graphs that are run, in the order they are inserted
RunIds == <<<<"a">>, <<"b">>, <<"c">>>>

NameK == <<"k">>

NameT == <<"t">>

NameW == <<"w">>

NameE == <<"e">>

RunNames == {NameK, NameT, NameW, NameE}

\* the callables of the graphs that are run: k returns a constant, t is a
\* sync function of MaxArity parameters, w an async function of one, e throws
RegisterFuncs(d) ==
    LET params == [i \in 1..MaxArity |-> <<"p">> \o NumberToString(i)]
        d1 == setNodeFunc(d, [name |-> NameK, args |-> None,
                              code |-> StringCode(<<"return", "k">>)]).d
        d2 == setNodeFunc(d1, [name |-> NameT, args |-> Some(params),
                               code |-> StringCode(<<"return", "t">>)]).d
        d3 == setNodeFunc(d2, [name |-> NameW, args |-> Some(<<ArgP>>),
                               code |-> StringCode(<<"return", "await", "p">>)]).d
    IN  setFunc(d3, NameE, Function("Func", 1, <<"throw", "failed">>),
                Some(<<ArgP>>)).d

RunPipes ==
    [from : {StringPin(RunIds[i]) : i \in 1..Len(RunIds)},
     to : {ArrayPin(RunIds[i], position) :
              i \in 1..Len(RunIds), position \in 0..(MaxArity - 1)}]

\* new Dflow({name, nodes, pipes}) for a graph of at most three nodes and
\* MaxRunPipes pipes, then the callables registered
InitRun ==
    /\ \E names \in ListsOf(RunNames, Len(RunIds)), pipes \in ListsOf(RunPipes, MaxRunPipes) :
           LET c == construct([name |-> <<"r", "u", "n">>, args |-> None, outs |-> None,
                               nodes |-> [i \in 1..Len(names) |->
                                             [id |-> RunIds[i], name |-> names[i]]],
                               pipes |-> pipes])
           IN  /\ c.thrown = <<>>
               /\ dflow = RegisterFuncs(c.d)
    /\ thrown = <<>>
    /\ returned = <<>>
    /\ task = Idle

SpecRun == InitRun /\ [][NextRun]_vars

-----------------------------------------------------------------------------
(* run() with the calls of async callables settling in a step of their own *)

\* an async function that does not await the promises it makes
Suspended_Never(pending) == FALSE

\* run(), runNode() and runFunc() await the promise of the call they made:
\* they are suspended while it has not settled
Suspended(pending) == pending # <<>>

\* the callable of the next node of the schedule, None when it has none
NextFunc ==
    IF task.i \in 1..Len(task.sorted) /\ MapHas(dflow.func, task.sorted[task.i][2])
    THEN Some(MapGet(dflow.func, task.sorted[task.i][2]))
    ELSE None

\* the loop of run() reaches a node whose callable is not async: createGraph
\* and runNode as one step
RunSync ==
    /\ ~Suspended(task.pending)
    /\ IF NextFunc = None THEN TRUE ELSE ~isAsyncFunc(NextFunc[1])
    /\ RunNext

\* the loop of run() reaches a node whose callable is async: createGraph,
\* then runFunc() up to `await func.apply(context, argValues)`
RunCall ==
    /\ task.pc = "running"
    /\ task.i <= Len(task.sorted)
    /\ ~Suspended(task.pending)
    /\ NextFunc # None /\ isAsyncFunc(NextFunc[1])
    /\ LET nodeId == task.sorted[task.i][1]
           nodeName == task.sorted[task.i][2]
           c == createGraph(dflow, nodeId,
                            IF MapHas(dflow.nodeGraph, nodeName)
                            THEN Some(MapGet(dflow.nodeGraph, nodeName)) ELSE None)
           a == argValues(c.d, nodeId)
       IN  IF c.thrown # <<>> \/ a.thrown # <<>>
           THEN /\ thrown' = IF c.thrown # <<>> THEN c.thrown ELSE a.thrown
                /\ task' = [task EXCEPT !.pc = "failed",
                                        !.log = IF c.thrown # <<>> THEN @
                                                ELSE @ \o <<Event("dispatch", nodeId)>>]
                /\ dflow' = IF c.thrown # <<>> THEN dflow ELSE c.d
           ELSE /\ thrown' = <<>>
                /\ dflow' = c.d
                /\ task' = [task EXCEPT
                               !.i = @ + 1,
                               !.log = @ \o <<Event("dispatch", nodeId),
                                              Event("call", nodeId)>>,
                               !.pending = Append(@,
                                   [nodeId |-> nodeId, nodeName |-> nodeName,
                                    func |-> NextFunc[1],
                                    context |-> ContextOf(c.d, nodeId, nodeName),
                                    values |-> a.values])]
    /\ UNCHANGED returned

\* the promise of an async callable settles: runFunc() writes the result
\* (or throws NodeExecution), then runNode() goes on with runGraph()
RunSettle ==
    /\ task.pending # <<>>
    /\ LET p == Head(task.pending)
       IN  IF Throws(p.func)
           THEN /\ thrown' = <<NodeExecution(p.nodeId, NodeNameOrEmpty(dflow, p.nodeId),
                                             ThrownMessage(p.func))>>
                /\ task' = [task EXCEPT !.pc = "failed", !.pending = Tail(@)]
                /\ UNCHANGED dflow
           ELSE \E g \in runGraph([dflow EXCEPT !.out =
                                      MapSet(@, p.nodeId,
                                             Apply(p.func, p.context, p.values))],
                                  p.nodeId,
                                  IF MapHas(dflow.graph, p.nodeName)
                                  THEN Some(p.nodeName) ELSE None) :
                    /\ dflow' = g.d
                    /\ thrown' = g.thrown
                    /\ task' = [task EXCEPT
                                   !.pc = IF g.thrown = <<>> THEN @ ELSE "failed",
                                   !.log = @ \o g.log,
                                   !.pending = Tail(@)]
    /\ UNCHANGED returned

\* the loop is over and nothing is awaited: run() resolves
RunResolve ==
    /\ ~Suspended(task.pending)
    /\ RunReturn

NextAsync == RunStart \/ RunSync \/ RunCall \/ RunSettle \/ RunResolve

SpecAsync == InitRun /\ [][NextAsync]_vars

-----------------------------------------------------------------------------
(* Runs of graphs with callables of every kind and with unbound names *)

\* the name of a generator function, of an async generator function, and a
\* name that is bound to nothing
NameN == <<"n">>

NameY == <<"y">>

NameU == <<"u">>

KindNames == {NameK, NameW, NameN, NameY, NameU}

\* the callables k (sync), w (async), and with setFunc() a generator
\* function n and an async generator function y; u is not registered
RegisterKinds(d) ==
    LET d1 == setNodeFunc(d, [name |-> NameK, args |-> None,
                              code |-> StringCode(<<"return", "k">>)]).d
        d2 == setNodeFunc(d1, [name |-> NameW, args |-> Some(<<ArgP>>),
                               code |-> StringCode(<<"return", "await", "p">>)]).d
        d3 == setFunc(d2, NameN, Function("GeneratorFunc", 1, <<"yield", "p">>),
                      Some(<<ArgP>>)).d
    IN  setFunc(d3, NameY, Function("AsyncGeneratorFunc", 1, <<"yield", "await", "p">>),
                Some(<<ArgP>>)).d

\* new Dflow({name, nodes, pipes}) for a graph of at most three nodes and
\* one pipe, then the callables registered
InitKinds ==
    /\ \E names \in ListsOf(KindNames, Len(RunIds)), pipes \in ListsOf(RunPipes, 1) :
           LET c == construct([name |-> <<"k", "i", "n", "d", "s">>, args |-> None,
                               outs |-> None,
                               nodes |-> [i \in 1..Len(names) |->
                                             [id |-> RunIds[i], name |-> names[i]]],
                               pipes |-> pipes])
           IN  /\ c.thrown = <<>>
               /\ dflow = RegisterKinds(c.d)
    /\ thrown = <<>>
    /\ returned = <<>>
    /\ task = Idle

SpecKinds == InitKinds /\ [][NextRun]_vars

-----------------------------------------------------------------------------
(* Runs of graphs that hold sub-graph nodes *)

NameD == <<"d">>

NameG == <<"g">>

NameI == <<"i">>

NameO == <<"o">>

\* the ids of the parent's nodes, in the order they are inserted; the second
\* one is the name of the template
ParentIds == <<<<"a">>, NameG, <<"c">>>>

ParentNames == {NameK, NameD, NameG}

\* the template `g` of scenario S6 with the ids `ids` for its three nested
\* nodes: input marker -> d -> output marker
TemplateG(ids) ==
    [name |-> NameG, args |-> Some(<<NameI>>), outs |-> Some(<<NameO>>),
     nodes |-> <<[id |-> ids[1], name |-> NameI], [id |-> ids[2], name |-> NameD],
                 [id |-> ids[3], name |-> NameO]>>,
     pipes |-> <<[from |-> StringPin(ids[1]), to |-> StringPin(ids[2])],
                 [from |-> StringPin(ids[2]), to |-> StringPin(ids[3])]>>]

\* the nested ids are the template's own, or the ones the parent uses too
NestedIds == {<<<<"x">>, <<"y">>, <<"z">>>>, ParentIds}

\* the callables k and d (one parameter) and the template g
RegisterSub(d, ids) ==
    LET d1 == setNodeFunc(d, [name |-> NameK, args |-> None,
                              code |-> StringCode(<<"return", "k">>)]).d
        d2 == setNodeFunc(d1, [name |-> NameD, args |-> Some(<<ArgP>>),
                               code |-> StringCode(<<"return", "2", "*", "p">>)]).d
    IN  setNodeGraph(d2, TemplateG(ids)).d

SubPipes ==
    [from : {StringPin(ParentIds[i]) : i \in 1..Len(ParentIds)},
     to : {ArrayPin(ParentIds[i], position) :
              i \in 1..Len(ParentIds), position \in 0..MaxPos}]

\* new Dflow({name, nodes, pipes}) for a parent graph of at most three nodes,
\* then the callables and the template registered
InitSub ==
    /\ \E names \in ListsOf(ParentNames, Len(ParentIds)),
          pipes \in ListsOf(SubPipes, MaxRunPipes),
          ids \in NestedIds :
           LET c == construct([name |-> <<"s", "u", "b">>, args |-> None, outs |-> None,
                               nodes |-> [i \in 1..Len(names) |->
                                             [id |-> ParentIds[i], name |-> names[i]]],
                               pipes |-> pipes])
           IN  /\ c.thrown = <<>>
               /\ dflow = RegisterSub(c.d, ids)
    /\ thrown = <<>>
    /\ returned = <<>>
    /\ task = Idle

SpecSub == InitSub /\ [][NextRun]_vars

-----------------------------------------------------------------------------
(* Runs of sub-graphs with two arguments and a sync, async or throwing node *)

NameJ == <<"j">>

NameS == <<"s">>

\* the names of the node in the middle of the nested graph
MidNames == {NameS, NameW, NameE}

\* the ids of the nested nodes
NestIds == <<<<"x">>, <<"y">>, <<"m">>, <<"z">>>>

\* a template g(i, j) -> o: the input markers x and y feed the two input pins
\* of the node m, which feeds the output marker z; the value of the second
\* argument is taken from the pin (y, 1), where runGraph() puts it
TemplateH(mid) ==
    [name |-> NameG, args |-> Some(<<NameI, NameJ>>), outs |-> Some(<<NameO>>),
     nodes |-> <<[id |-> NestIds[1], name |-> NameI], [id |-> NestIds[2], name |-> NameJ],
                 [id |-> NestIds[3], name |-> mid], [id |-> NestIds[4], name |-> NameO]>>,
     pipes |-> <<[from |-> StringPin(NestIds[1]), to |-> ArrayPin(NestIds[3], 0)],
                 [from |-> ArrayPin(NestIds[2], 1), to |-> ArrayPin(NestIds[3], 1)],
                 [from |-> StringPin(NestIds[3]), to |-> StringPin(NestIds[4])]>>]

\* the contexts the user stores by name before the run: none, or one for the
\* node in the middle and one for a name that is an input marker of the
\* nested graph
NestContexts(mid) ==
    {<<>>, <<<<mid, Object("m")>>, <<NameI, Object("i")>>>>}

\* the callables of the parent: k, s (sync, two parameters), w (async, two
\* parameters), e (throws), and two callables that have the names of the
\* nested graph's markers i and o; then the template g and the contexts
RegisterNest(d, mid, context) ==
    LET pq == Some(<<ArgP, ArgQ>>)
        d1 == setNodeFunc(d, [name |-> NameK, args |-> None,
                              code |-> StringCode(<<"return", "k">>)]).d
        d2 == setNodeFunc(d1, [name |-> NameS, args |-> pq,
                               code |-> StringCode(<<"return", "p", "+", "q">>)]).d
        d3 == setNodeFunc(d2, [name |-> NameW, args |-> pq,
                               code |-> StringCode(<<"return", "await", "p">>)]).d
        d4 == setFunc(d3, NameE, Function("Func", 2, <<"throw", "failed">>), pq).d
        d5 == setNodeFunc(d4, [name |-> NameI, args |-> Some(<<ArgP>>),
                               code |-> StringCode(<<"return", "p">>)]).d
        d6 == setNodeFunc(d5, [name |-> NameO, args |-> Some(<<ArgP>>),
                               code |-> StringCode(<<"return", "p">>)]).d
        d7 == setNodeGraph(d6, TemplateH(mid)).d
    IN  [d7 EXCEPT !.context = context]

NestNames == {NameK, NameG}

\* new Dflow({name, nodes, pipes}) for a parent graph of at most three nodes
\* named k or g, then the callables, the template and the contexts
InitNest ==
    /\ \E names \in ListsOf(NestNames, Len(ParentIds)),
          pipes \in ListsOf(SubPipes, MaxRunPipes),
          mid \in MidNames :
          \E context \in NestContexts(mid) :
           LET c == construct([name |-> <<"n", "e", "s", "t">>, args |-> None,
                               outs |-> None,
                               nodes |-> [i \in 1..Len(names) |->
                                             [id |-> ParentIds[i], name |-> names[i]]],
                               pipes |-> pipes])
           IN  /\ c.thrown = <<>>
               /\ dflow = RegisterNest(c.d, mid, context)
    /\ thrown = <<>>
    /\ returned = <<>>
    /\ task = Idle

SpecNest == InitNest /\ [][NextRun]_vars

-----------------------------------------------------------------------------
(* Runs of sub-graphs whose nested nodes are named after templates *)

NameH == <<"h">>

\* the ids of the parent's nodes: the first two are the names of the templates
DeepIds == <<NameG, NameH, <<"c">>>>

DeepNames == {NameK, NameG, NameH}

\* a template name(i) -> o: the input marker x feeds a node that has the name
\* `inner` and the id `inner`, which feeds the output marker z
TemplateOf(name, inner) ==
    [name |-> name, args |-> Some(<<NameI>>), outs |-> Some(<<NameO>>),
     nodes |-> <<[id |-> <<"x">>, name |-> NameI], [id |-> inner, name |-> inner],
                 [id |-> <<"z">>, name |-> NameO]>>,
     pipes |-> <<[from |-> StringPin(<<"x">>), to |-> StringPin(inner)],
                 [from |-> StringPin(inner), to |-> StringPin(<<"z">>)]>>]

\* the nested node of g is named h (another template) or g (the template
\* itself); the nested node of h is named k (a callable) or g
DeepTemplates == [g : {NameH, NameG}, h : {NameK, NameG}]

\* the callable k, then the templates g and h
RegisterDeep(d, inner) ==
    LET d1 == setNodeFunc(d, [name |-> NameK, args |-> None,
                              code |-> StringCode(<<"return", "k">>)]).d
        d2 == setNodeGraph(d1, TemplateOf(NameG, inner.g)).d
    IN  setNodeGraph(d2, TemplateOf(NameH, inner.h)).d

DeepPipes ==
    [from : {StringPin(DeepIds[i]) : i \in 1..Len(DeepIds)},
     to : {ArrayPin(DeepIds[i], position) :
              i \in 1..Len(DeepIds), position \in 0..MaxPos}]

\* new Dflow({name, nodes, pipes}) for a parent graph of at most three nodes
\* named k, g or h and one pipe, then the callable and the templates
InitDeep ==
    /\ \E names \in ListsOf(DeepNames, Len(DeepIds)),
          pipes \in ListsOf(DeepPipes, 1),
          inner \in DeepTemplates :
           LET c == construct([name |-> <<"d", "e", "e", "p">>, args |-> None,
                               outs |-> None,
                               nodes |-> [i \in 1..Len(names) |->
                                             [id |-> DeepIds[i], name |-> names[i]]],
                               pipes |-> pipes])
           IN  /\ c.thrown = <<>>
               /\ dflow = RegisterDeep(c.d, inner)
    /\ thrown = <<>>
    /\ returned = <<>>
    /\ task = Idle

SpecDeep == InitDeep /\ [][NextRun]_vars

\* new Dflow({name, nodes}) for a parent graph of at most two nodes named g
\* or h, then the callable and the templates
InitLoop ==
    /\ \E names \in ListsOf({NameG, NameH}, 2), inner \in DeepTemplates :
           LET c == construct([name |-> <<"l", "o", "o", "p">>, args |-> None,
                               outs |-> None,
                               nodes |-> [i \in 1..Len(names) |->
                                             [id |-> DeepIds[i], name |-> names[i]]],
                               pipes |-> <<>>])
           IN  /\ c.thrown = <<>>
               /\ dflow = RegisterDeep(c.d, inner)
    /\ thrown = <<>>
    /\ returned = <<>>
    /\ task = Idle

\* the loop of run() has a node left: RunNext is enabled (runStep has an
\* outcome for every node, and the step changes the task)
RunNextEnabled == task.pc = "running" /\ task.i <= Len(task.sorted)

\* once run() has been called, the event loop resumes it after every await
\* until it returns or throws: weak fairness of RunReturn and of RunNext,
\* the latter written out with the enabling condition of RunNext
SpecLoop ==
    /\ InitLoop /\ [][NextRun]_vars
    /\ WF_vars(RunReturn)
    /\ ([]<>(~RunNextEnabled) \/ []<><<RunNext>>_vars)

-----------------------------------------------------------------------------
(* Runs that follow a run, with contexts *)

\* run() is called at most MaxRuns times on one engine
MaxRuns == 2

\* run() is called again after a run has ended
RunAgain ==
    /\ task.pc \in {"done", "failed"}
    /\ Len(task.ended) + 1 < MaxRuns
    /\ StartRun(Append(task.ended, task.pc))

\* this.context.set(key, value), the map being a public field
SetContext(key, value) ==
    /\ dflow' = [dflow EXCEPT !.context = MapSet(@, key, value)]
    /\ UNCHANGED <<thrown, returned, task>>

AgainIds == <<RunIds[1], RunIds[2]>>

AgainNames == {NameK, NameE}

\* the contexts that are stored: by node id (an object or null) and by name
ContextInputs ==
    {<<AgainIds[1], Object("i")>>, <<AgainIds[1], Null>>, <<NameK, Object("n")>>}

AgainPipes ==
    [from : {StringPin(AgainIds[i]) : i \in 1..Len(AgainIds)},
     to : {StringPin(AgainIds[i]) : i \in 1..Len(AgainIds)}]

\* the callables k and e (throws)
RegisterAgain(d) ==
    LET d1 == setNodeFunc(d, [name |-> NameK, args |-> None,
                              code |-> StringCode(<<"return", "this">>)]).d
    IN  setFunc(d1, NameE, Function("Func", 0, <<"throw", "failed">>), None).d

\* new Dflow({name, nodes, pipes}) for a graph of at most two nodes and one
\* pipe, then the callables registered
InitAgain ==
    /\ \E names \in ListsOf(AgainNames, Len(AgainIds)), pipes \in ListsOf(AgainPipes, 1) :
           LET c == construct([name |-> <<"a", "g", "a", "i", "n">>, args |-> None,
                               outs |-> None,
                               nodes |-> [i \in 1..Len(names) |->
                                             [id |-> AgainIds[i], name |-> names[i]]],
                               pipes |-> pipes])
           IN  /\ c.thrown = <<>>
               /\ dflow = RegisterAgain(c.d)
    /\ thrown = <<>>
    /\ returned = <<>>
    /\ task = Idle

\* runs, the removal of a node after a failed run, and contexts stored
\* whenever another task can act
NextAgain ==
    \/ RunStart
    \/ RunNext
    \/ RunReturn
    \/ RunAgain
    \/ \E id \in {AgainIds[i] : i \in 1..Len(AgainIds)} :
           task.pc = "failed" /\ DelNode(id)
    \/ \E input \in ContextInputs :
           OtherTaskCanAct /\ SetContext(input[1], input[2])

SpecAgain == InitAgain /\ [][NextAgain]_vars

-----------------------------------------------------------------------------
(* Edits of the parent's tables before, between and after its runs *)

\* this.nodeArgs.set(name, args), the map being a public field
NodeArgsSet(name, args) ==
    /\ dflow' = [dflow EXCEPT !.nodeArgs = MapSet(@, name, args)]
    /\ UNCHANGED <<thrown, returned, task>>

\* the callables that are added to the parent: a new name, and the name of
\* the input marker of the template
EditFuncs ==
    [name : {NameT, NameI}, args : {Some(<<ArgP>>)},
     code : {StringCode(<<"return", "p">>)}]

\* new Dflow({name, nodes, pipes}) for a parent graph of at most two nodes
\* named k or g and at most one pipe, then the callables k and d and the
\* template g registered
InitEdit ==
    /\ \E names \in ListsOf(NestNames, 2), pipes \in ListsOf(SubPipes, 1) :
           LET c == construct([name |-> <<"e", "d", "i", "t">>, args |-> None,
                               outs |-> None,
                               nodes |-> [i \in 1..Len(names) |->
                                             [id |-> ParentIds[i], name |-> names[i]]],
                               pipes |-> pipes])
           IN  /\ c.thrown = <<>>
               /\ dflow = RegisterSub(c.d, <<NestIds[1], NestIds[3], NestIds[4]>>)
    /\ thrown = <<>>
    /\ returned = <<>>
    /\ task = Idle

\* runs, and between them callables added to the parent, their argument
\* names replaced and contexts stored
NextEdit ==
    \/ RunStart
    \/ RunNext
    \/ RunReturn
    \/ RunAgain
    \/ \E nodeFunc \in EditFuncs : task.pc # "running" /\ SetNodeFunc(nodeFunc)
    \/ \E name \in {NameD, NameT} : OtherTaskCanAct /\ NodeArgsSet(name, <<ArgQ>>)
    \/ OtherTaskCanAct /\ SetContext(NameD, Object("n"))

SpecEdit == InitEdit /\ [][NextEdit]_vars

-----------------------------------------------------------------------------
(* Nodes deleted and added again before, between and after runs *)

\* runs, and between them delNode() and addNode() on the ids of the parent
NextStale ==
    \/ RunStart
    \/ RunNext
    \/ RunReturn
    \/ RunAgain
    \/ \E id \in {ParentIds[1], ParentIds[2]} : task.pc # "running" /\ DelNode(id)
    \/ \E name \in NestNames, id \in {ParentIds[1], ParentIds[2]} :
           task.pc # "running" /\ AddNode(name, id)

SpecStale == InitEdit /\ [][NextStale]_vars

-----------------------------------------------------------------------------
(* class DflowExecutor of src/executor.ts *)

\* new DflowExecutor(): the engine of super() with the set nodesWithContext
DflowExecutor == construct(DefaultNodeGraph).d @@ [nodesWithContext |-> {}]

\* funcBody.includes(word)
Includes(body, word) == \E i \in 1..Len(body) : body[i] = word

\* the context addNode() stores: emit bound to the pin (id, 1), stop bound to
\* the emitter
EmitContext(id) ==
    [emit |-> pinToPinId(ArrayPin(id, 1)), stop |-> "emitter.stop"]

\* DflowExecutor.emit(pinId, value); the data event goes to handleEvent(),
\* which logs it
DflowExecutor_emit(d, pinId, value) == [d EXCEPT !.out = MapSet(@, pinId, value)]

\* DflowExecutor.addNode(name, id)
DflowExecutor_addNode(d, name, id) ==
    LET r == addNode(d, name, id)
    IN  IF name \in r.d.nodesWithContext
        THEN Return([r.d EXCEPT !.context = MapSet(@, id, EmitContext(id))], id)
        ELSE r

\* DflowExecutor.setNodeFunc({name, args, code})
DflowExecutor_setNodeFunc(d, nodeFunc) ==
    LET r == setNodeFunc(d, nodeFunc)
    IN  IF r.thrown # <<>> THEN r
        ELSE IF Includes(funcBody(nodeFunc.code), "this.emit")
                   \/ Includes(funcBody(nodeFunc.code), "this.stop")
        THEN Ok([r.d EXCEPT !.nodesWithContext = @ \cup {nodeFunc.name}])
        ELSE r

NameM == <<"m">>

NameL == <<"l">>

\* the callables that are registered: k uses no context, m calls this.emit
\* with its argument, l calls this.stop
ExecutorFuncs ==
    {[name |-> NameK, args |-> None, code |-> StringCode(<<"return", "k">>)],
     [name |-> NameM, args |-> Some(<<ArgP>>), code |-> StringCode(<<"this.emit", "p">>)],
     [name |-> NameL, args |-> None,
      code |-> ArrayCode(<<<<"this.stop">>, <<"return", "l">>>>)]}

\* the member of `this` the body of func calls, None when it calls none
MemberCalled(func) ==
    IF Includes(func.body, "this.emit") THEN Some("this.emit")
    ELSE IF Includes(func.body, "this.stop") THEN Some("this.stop")
    ELSE None

\* one iteration of the loop of run() on a DflowExecutor.  A body that calls
\* this.emit or this.stop throws a TypeError when `this` is no context of
\* addNode(), which runFunc() rethrows as NodeExecution; with such a context
\* this.emit(p) is emit(pinId, p) for the bound pinId, before the callable
\* returns
ExecutorRunNext ==
    /\ task.pc = "running"
    /\ task.i <= Len(task.sorted)
    /\ LET nodeId == task.sorted[task.i][1]
           nodeName == task.sorted[task.i][2]
           context == ContextOf(dflow, nodeId, nodeName)
           called == IF MapHas(dflow.func, nodeName)
                     THEN MemberCalled(MapGet(dflow.func, nodeName)) ELSE None
           a == argValues(dflow, nodeId)
           d == IF called = Some("this.emit") /\ context # Null /\ a.thrown = <<>>
                THEN DflowExecutor_emit(dflow, context.emit,
                                        IF a.values = <<>> THEN Undefined ELSE a.values[1])
                ELSE dflow
       IN  IF called # None /\ context = Null /\ a.thrown = <<>>
           THEN /\ dflow' = dflow
                /\ thrown' = <<NodeExecution(nodeId, nodeName,
                                   <<called[1], "is", "not", "a", "function">>)>>
                /\ task' = [task EXCEPT !.pc = "failed",
                                        !.log = @ \o <<Event("dispatch", nodeId),
                                                       Event("call", nodeId)>>]
           ELSE \E r \in runStep(d, nodeId, nodeName) :
                   /\ dflow' = r.d
                   /\ thrown' = r.thrown
                   /\ task' = [task EXCEPT !.log = @ \o r.log,
                                           !.i = IF r.thrown = <<>> THEN @ + 1 ELSE @,
                                           !.pc = IF r.thrown = <<>> THEN @ ELSE "failed"]
    /\ UNCHANGED returned

InitExecutor ==
    /\ dflow = DflowExecutor
    /\ thrown = <<>>
    /\ returned = <<>>
    /\ task = Idle

\* addNode() and setNodeFunc() in any order, then a run
NextExecutor ==
    \/ \E name \in {NameK, NameM, NameL}, id \in NodeIds :
           task.pc = "idle" /\ Outcome(DflowExecutor_addNode(dflow, name, id))
    \/ \E nodeFunc \in ExecutorFuncs :
           task.pc = "idle" /\ Outcome(DflowExecutor_setNodeFunc(dflow, nodeFunc))
    \/ RunStart
    \/ ExecutorRunNext
    \/ RunReturn

SpecExecutor == InitExecutor /\ [][NextExecutor]_vars

-----------------------------------------------------------------------------
(* Properties of the graph store *)

\* the node a pin belongs to and its position, read off the pin itself
PinNode(pin) == IF pin.type = "string" THEN pin.str ELSE pin.nodeId

PinPosition(pin) == IF pin.type = "string" THEN 0 ELSE pin.position

\* the canonical PinId of (id, position)
CanonicalPinId(id, position) ==
    IF position = 0 THEN id ELSE id \o <<Comma>> \o NumberToString(position)

\* the node a stored PinId belongs to: the part before the comma
PinIdNode(pinId) == Split(pinId, Comma)[1]

\* the entries of map m other than the one of key k, in order
MapWithout(m, k) == SelectSeq(m, LAMBDA e : e[1] # k)

\* C1: every pipe in the pipe map has its source node and its target node in
\* the node map, whatever the position of its pins
C1_PipesHaveBothEndpoints ==
    \A i \in 1..Len(dflow.pipe) :
        /\ PinIdNode(dflow.pipe[i][1]) \in MapKeys(dflow.node)
        /\ PinIdNode(dflow.pipe[i][2]) \in MapKeys(dflow.node)

\* C7: in every reachable store, addPipe(pipe) throws BrokenPipe carrying the
\* pipe and changes neither map when the source node or the target node is
\* absent; otherwise it throws nothing and stores target PinId -> source
\* PinId, the other entries untouched
C7_AddPipeBrokenOrStored ==
    \A pipe \in Pipes :
        LET r == addPipe(dflow, pipe)
            toId == CanonicalPinId(PinNode(pipe.to), PinPosition(pipe.to))
            fromId == CanonicalPinId(PinNode(pipe.from), PinPosition(pipe.from))
        IN  IF PinNode(pipe.from) \notin MapKeys(dflow.node)
                  \/ PinNode(pipe.to) \notin MapKeys(dflow.node)
            THEN /\ r.thrown = <<BrokenPipe(pipe)>>
                 /\ r.d.node = dflow.node
                 /\ r.d.pipe = dflow.pipe
            ELSE /\ r.thrown = <<>>
                 /\ r.d.node = dflow.node
                 /\ MapHas(r.d.pipe, toId)
                 /\ MapGet(r.d.pipe, toId) = fromId
                 /\ MapWithout(r.d.pipe, toId) = MapWithout(dflow.pipe, toId)

\* C7 witness: addPipe threw BrokenPipe on a store that holds a node and a pipe
C7_Witness ==
    /\ thrown # <<>>
    /\ thrown[1].errorName = "DflowErrorBrokenPipe"
    /\ Len(dflow.node) >= 1
    /\ Len(dflow.pipe) >= 1

-----------------------------------------------------------------------------
(* Properties of the name tables *)

FuncNames(d) == MapKeys(d.func)

GraphNames(d) == MapKeys(d.nodeGraph)

NameTaken(d, name) ==
    name \in d.ioNodes \/ name \in FuncNames(d) \/ name \in GraphNames(d)

\* the outcomes of every setter call with the name `name`
SetterOutcomes(d, name) ==
    {setFunc(d, name, func, args) : func \in FuncInputs, args \in ArgsInputs}
        \cup {setNodeArg(d, name), setNodeOut(d, name)}
        \cup {setNodeFunc(d, nodeFunc) : nodeFunc \in {nf \in NodeFuncInputs : nf.name = name}}
        \cup {setNodeGraph(d, nodeGraph) : nodeGraph \in {ng \in NodeGraphInputs : ng.name = name}}

\* C6: the I/O-marker names, the callable names and the template names are
\* pairwise disjoint, and a setter called with a name that is in one of them
\* throws NodeOverride carrying the name and leaves every table unchanged
C6_NamesDisjointAndOverrideRejected ==
    /\ dflow.ioNodes \cap FuncNames(dflow) = {}
    /\ dflow.ioNodes \cap GraphNames(dflow) = {}
    /\ FuncNames(dflow) \cap GraphNames(dflow) = {}
    /\ \A name \in Names :
           NameTaken(dflow, name) =>
               \A r \in SetterOutcomes(dflow, name) :
                   /\ r.thrown = <<NodeOverride(name)>>
                   /\ r.d = dflow

\* C6 witness: a setter threw NodeOverride while the three sets are all
\* non-empty
C6_Witness ==
    /\ thrown # <<>>
    /\ thrown[1].errorName = "DflowErrorNodeOverride"
    /\ dflow.ioNodes # {}
    /\ FuncNames(dflow) # {}
    /\ GraphNames(dflow) # {}

\* C17: after setFunc(name, func) without args, for a callable with n > 0
\* declared parameters, the argument names recorded for name are
\* arg0 .. arg(n-1)
C17_DefaultArgNamesFollowArity ==
    \A name \in Names, func \in FuncInputs :
        LET r == setFunc(dflow, name, func, None)
        IN  (r.thrown = <<>> /\ func.length > 0) =>
                /\ MapHas(r.d.nodeArgs, name)
                /\ MapGet(r.d.nodeArgs, name)
                       = [i \in 1..func.length |-> <<"a", "r", "g">> \o NumberToString(i - 1)]

\* C18: after setNodeFunc({name, args, code}) with args given, for sync and
\* for async code, the argument names recorded for name are args, and
\* argValues of a node of that name has one value per name of args
C18_NodeFuncArgsRecorded ==
    \A nodeFunc \in NodeFuncInputs, id \in NodeIds :
        LET r == setNodeFunc(dflow, nodeFunc)
        IN  (r.thrown = <<>> /\ nodeFunc.args # None) =>
                /\ MapHas(r.d.nodeArgs, nodeFunc.name)
                /\ MapGet(r.d.nodeArgs, nodeFunc.name) = nodeFunc.args[1]
                /\ Len(argValues(addNode(r.d, nodeFunc.name, id).d, id).values)
                       = Len(nodeFunc.args[1])

-----------------------------------------------------------------------------
(* Properties of a run *)

\* the pipes of the store as <<source node, target node>> pairs
PipeEdges(d) ==
    {<<PinIdNode(d.pipe[i][2]), PinIdNode(d.pipe[i][1])>> : i \in 1..Len(d.pipe)}

RECURSIVE TransitiveClosure(_, _)
TransitiveClosure(R, n) ==
    IF n = 0 THEN R
    ELSE TransitiveClosure(
             R \cup {<<x[1][1], x[2][2]>> : x \in {y \in R \X R : y[1][2] = y[2][1]}},
             n - 1)

\* no node reaches itself along the pipes
Acyclic(d) ==
    \A e \in TransitiveClosure(PipeEdges(d), Len(d.pipe)) : e[1] # e[2]

\* the pipes as get nodes() hands them to levelOfNode
ParsedPipes(d) == [i \in 1..Len(d.pipe) |-> pipeIdToPipe(d.pipe[i])]

\* the places of the log where the root engine dispatched node id
DispatchesOf(log, id) ==
    {i \in 1..Len(log) :
        log[i].type = "dispatch" /\ log[i].nodeId = id /\ log[i].graph = <<>>}

\* the places of the log where the root engine called the callable of node id
CallsOf(log, id) ==
    {i \in 1..Len(log) :
        log[i].type = "call" /\ log[i].nodeId = id /\ log[i].graph = <<>>}

\* C2: in an acyclic graph every pipe goes from a node of lower level to a
\* node of higher level, and a node is never dispatched before the source
\* node of one of its pipes
C2_LevelsAndDispatchFollowPipes ==
    Acyclic(dflow) =>
        \A e \in PipeEdges(dflow) :
            /\ levelOfNode(e[1], ParsedPipes(dflow)) < levelOfNode(e[2], ParsedPipes(dflow))
            /\ \A j \in DispatchesOf(task.log, e[2]) :
                   \E i \in DispatchesOf(task.log, e[1]) : i < j

\* C2 witness: a run is over on a chain of two pipes through three nodes
C2_Witness ==
    /\ task.pc = "done"
    /\ Acyclic(dflow)
    /\ \E i \in 1..Len(dflow.node) :
           levelOfNode(dflow.node[i][1], ParsedPipes(dflow)) = 2

\* C8: no node is dispatched twice and no callable is called twice for one
\* node in a run, and when run() returns every node of the node map has
\* been dispatched exactly once
C8_EachNodeDispatchedOnce ==
    /\ \A i \in 1..Len(dflow.node) :
           /\ Cardinality(DispatchesOf(task.log, dflow.node[i][1])) <= 1
           /\ Cardinality(CallsOf(task.log, dflow.node[i][1])) <= 1
    /\ task.pc = "done" =>
           /\ \A i \in 1..Len(dflow.node) :
                  Cardinality(DispatchesOf(task.log, dflow.node[i][1])) = 1
           /\ \A k \in 1..Len(task.log) :
                  task.log[k].type = "dispatch" => MapHas(dflow.node, task.log[k].nodeId)

\* C8 witness: run() returned on a graph of three nodes, all dispatched
C8_Witness ==
    /\ task.pc = "done"
    /\ Len(dflow.node) = 3
    /\ \A i \in 1..3 : DispatchesOf(task.log, dflow.node[i][1]) # {}

\* C9: two nodes of equal level are in the sorted list in the order in which
\* they were inserted into the node map
C9_TiesKeepInsertionOrder ==
    task.pc = "running" =>
        \A i, j \in 1..Len(task.sorted) :
            (/\ i < j
             /\ levelOfNode(task.sorted[i][1], ParsedPipes(dflow))
                    = levelOfNode(task.sorted[j][1], ParsedPipes(dflow)))
            => MapIndex(dflow.node, task.sorted[i][1])
                   < MapIndex(dflow.node, task.sorted[j][1])

\* C10: the level computation of run() terminates with a level for every
\* node, on cyclic graphs too: it never ends in a stack overflow
C10_LevelComputationTerminates ==
    thrown # <<>> => thrown[1].errorName # "RangeError"

\* the callable bound to a name, if it is one that run() calls
IsCalled(d, name) ==
    /\ MapHas(d.func, name)
    /\ MapGet(d.func, name).ctor \in {"Func", "AsyncFunc"}

\* the value the pipe into (id, position) carries: what the cache holds at
\* the pipe's source pin, undefined when there is no such pipe
PipedValue(d, id, position) ==
    LET toId == CanonicalPinId(id, position)
    IN  IF MapHas(d.pipe, toId) THEN OutGet(d.out, MapGet(d.pipe, toId))
        ELSE Undefined

\* C4: when run() has returned, the cache at the id of every node bound to a
\* sync or async callable f holds f applied to the values its inbound pipes
\* carry, one per parameter of f in position order
C4_OutputIsFuncOfPipedValues ==
    task.pc = "done" =>
        \A i \in 1..Len(dflow.node) :
            LET id == dflow.node[i][1]
                name == dflow.node[i][2]
                f == MapGet(dflow.func, name)
            IN  IsCalled(dflow, name) =>
                    /\ MapHas(dflow.out, id)
                    /\ MapGet(dflow.out, id).body = f.body
                    /\ MapGet(dflow.out, id).args
                           = [p \in 1..f.length |-> PipedValue(dflow, id, p - 1)]

\* C5: when a callable throws, run() fails with NodeExecution carrying the
\* node's id, its name and the thrown message; no later node of the sorted
\* list has been dispatched, the cache has no entry for the failing node, and
\* it has the entries of the earlier nodes that are bound to callables
C5_ThrowStopsRun ==
    (task.pc = "failed" /\ thrown[1].errorName = "DflowErrorNodeExecution") =>
        LET id == task.sorted[task.i][1]
            name == task.sorted[task.i][2]
        IN  /\ thrown = <<NodeExecution(id, name, <<"failed">>)>>
            /\ Throws(MapGet(dflow.func, name))
            /\ ~MapHas(dflow.out, id)
            /\ \A j \in 1..Len(task.sorted) :
                   /\ j > task.i => DispatchesOf(task.log, task.sorted[j][1]) = {}
                   /\ (j < task.i /\ IsCalled(dflow, task.sorted[j][2]))
                          => MapHas(dflow.out, task.sorted[j][1])
            /\ ~ENABLED RunNext

\* C5 witness: run() failed at the second or third node of the sorted list,
\* after a callable wrote the cache
C5_Witness ==
    /\ task.pc = "failed"
    /\ thrown[1].errorName = "DflowErrorNodeExecution"
    /\ task.i >= 2
    /\ Len(dflow.out) >= 1
    /\ task.i < Len(task.sorted)

-----------------------------------------------------------------------------
(* Properties of sub-graph runs *)

\* C3: when run() has returned, every parent node (graphId, g) has a
\* sub-graph instance, and the parent's cache at the pin (graphId, 0) holds
\* the value that feeds the nested output marker: d applied to the value
\* piped into graphId
C3_SubGraphOutputInParentCache ==
    task.pc = "done" =>
        \A i \in 1..Len(dflow.node) :
            LET graphId == dflow.node[i][1]
            IN  dflow.node[i][2] = NameG =>
                    /\ MapHas(dflow.graph, graphId)
                    /\ MapHas(dflow.out, CanonicalPinId(graphId, 0))
                    /\ MapGet(dflow.out, CanonicalPinId(graphId, 0))
                           = Value(MapGet(dflow.func, NameD).body, Null,
                                   <<PipedValue(dflow, graphId, 0)>>)

\* the places of the log added by the step from task to task'
NewEvents == (Len(task.log) + 1)..Len(task'.log)

\* the entries of the log where the root engine injected the arguments of a
\* sub-graph node
Injections(log) ==
    {k \in 1..Len(log) : log[k].type = "inject" /\ log[k].graph = <<>>}

\* C11: when the arguments of graphId are injected, no nested node has been
\* dispatched in this step yet, and for every nested node (subId, subName)
\* and position p with subName = args[p] the instance's cache at the PinId
\* of (subId, p) is the p-th of the argument values of graphId, as computed
\* from the parent's cache
C11_ArgsInjectedBeforeNestedRun ==
    [][\A k \in Injections(task'.log) \cap NewEvents :
          LET graphId == task'.log[k].nodeId
              g == task'.log[k].instance
              values == argValues(dflow, graphId).values
          IN  /\ \A j \in NewEvents : j < k => task'.log[j].graph = <<>>
              /\ g.args # None =>
                     \A n \in 1..Len(g.node), p \in 0..(Len(g.args[1]) - 1) :
                         g.node[n][2] = g.args[1][p + 1] =>
                             /\ p + 1 <= Len(values)
                             /\ MapHas(g.out, CanonicalPinId(g.node[n][1], p))
                             /\ MapGet(g.out, CanonicalPinId(g.node[n][1], p))
                                    = values[p + 1]]_vars

\* both arguments of a sub-graph node were injected with values that nodes
\* of the parent produced
C11_Witness ==
    \E k \in Injections(task.log) :
        LET g == task.log[k].instance
        IN  /\ MapHas(g.out, CanonicalPinId(NestIds[1], 0))
            /\ MapGet(g.out, CanonicalPinId(NestIds[1], 0)) # Undefined
            /\ MapHas(g.out, CanonicalPinId(NestIds[2], 1))
            /\ MapGet(g.out, CanonicalPinId(NestIds[2], 1)) # Undefined

\* the entries of the log where the root engine extracted the outputs of a
\* sub-graph node
Extractions(log) ==
    {k \in 1..Len(log) : log[k].type = "extract" /\ log[k].graph = <<>>}

\* C12: when run() has returned, for every sub-graph node graphId whose
\* instance g was run, and every nested node (subId, subName) and position p
\* with subName = outs[p] that has an inbound pipe in g's own pipe map, the
\* parent's cache at (graphId, p) holds g's cache value at that pipe's source
C12_OutputsExtractedThroughOwnPipes ==
    task.pc = "done" =>
        \A k \in Extractions(task.log) :
            LET graphId == task.log[k].nodeId
                g == task.log[k].instance
            IN  g.outs # None =>
                    \A n \in 1..Len(g.node), p \in 0..(Len(g.outs[1]) - 1) :
                        (/\ g.node[n][2] = g.outs[1][p + 1]
                         /\ MapHas(g.pipe, g.node[n][1]))
                        => /\ MapHas(dflow.out, CanonicalPinId(graphId, p))
                           /\ MapGet(dflow.out, CanonicalPinId(graphId, p))
                                  = OutGet(g.out, MapGet(g.pipe, g.node[n][1]))

\* the last place before j where the root engine dispatched a node, 0 when
\* there is none
LastDispatchBefore(log, j) ==
    LET before == {i \in 1..(j - 1) : log[i].type = "dispatch" /\ log[i].graph = <<>>}
    IN  IF before = {} THEN 0 ELSE CHOOSE i \in before : \A h \in before : h <= i

\* C13: everything a sub-graph instance does as node graphId (the dispatches
\* and calls of its nested nodes) is in the log after the injection of the
\* arguments of graphId and before the extraction of its outputs, and graphId
\* is the last node the parent has dispatched at that moment
C13_NestedWorkBetweenInjectAndExtract ==
    \A j \in 1..Len(task.log) :
        task.log[j].graph # <<>> =>
            LET graphId == task.log[j].graph[1]
                d == LastDispatchBefore(task.log, j)
            IN  /\ d > 0
                /\ task.log[d].nodeId = graphId
                /\ \E k \in Injections(task.log) :
                       d < k /\ k < j /\ task.log[k].nodeId = graphId
                /\ \A x \in Extractions(task.log) : ~(d < x /\ x < j)

\* an async nested callable was called, and the outputs of its sub-graph
\* node were extracted afterwards
C13_Witness ==
    \E j \in 1..Len(task.log), x \in Extractions(task.log) :
        /\ j < x
        /\ task.log[j].type = "call"
        /\ task.log[j].graph = <<task.log[x].nodeId>>
        /\ LET g == task.log[x].instance
           IN  isAsyncFunc(MapGet(g.func, MapGet(g.node, task.log[j].nodeId)))

\* sub occurs in seq as a run of consecutive elements
Contains(seq, sub) ==
    \E i \in 0..(Len(seq) - Len(sub)) : SubSeq(seq, i + 1, i + Len(sub)) = sub

\* the run failed while the sub-graph instance of the node it was at was
\* running: the arguments of that node were injected after its dispatch
NestedRunFailed ==
    /\ task.pc = "failed"
    /\ task.i >= 1 /\ task.i <= Len(task.sorted)
    /\ \E k \in Injections(task.log) :
           /\ task.log[k].nodeId = task.sorted[task.i][1]
           /\ LastDispatchBefore(task.log, k + 1) = LastDispatchBefore(task.log, Len(task.log) + 1)

\* C14: when the nested run of the sub-graph node (graphId, name) fails,
\* run() fails with NodeExecution(graphId, name, message), the message has in
\* it the message of the nested error (the NodeExecution of the nested node
\* whose callable threw), graphId is the last node the parent dispatched, no
\* further node can be dispatched and the outputs of graphId are not extracted
C14_NestedFailureRewrapped ==
    NestedRunFailed =>
        LET graphId == task.sorted[task.i][1]
            d == LastDispatchBefore(task.log, Len(task.log) + 1)
            last == task.log[Len(task.log)]
            g == MapGet(dflow.graph, task.sorted[task.i][2])
            nestedName == MapGet(g.node, last.nodeId)
            nestedMessage == NodeExecutionMessage(last.nodeId, nestedName,
                                                  ThrownMessage(MapGet(g.func, nestedName)))
        IN  /\ thrown # <<>>
            /\ thrown[1].errorName = "DflowErrorNodeExecution"
            /\ thrown[1].nodeId = graphId
            /\ thrown[1].nodeName = task.sorted[task.i][2]
            /\ last.type = "call" /\ last.graph = <<graphId>>
            /\ Contains(thrown[1].nodeErrorMessage, nestedMessage)
            /\ Contains(thrown[1].nodeErrorMessage, ThrownMessage(MapGet(g.func, nestedName)))
            /\ task.log[d].nodeId = graphId
            /\ \A x \in Extractions(task.log) : x < d
            /\ ~ENABLED RunNext

\* a nested run failed after an earlier node of the parent had produced a
\* value, with a node of the parent still to be dispatched
C14_Witness ==
    /\ NestedRunFailed
    /\ Len(dflow.out) >= 1
    /\ task.i < Len(task.sorted)

-----------------------------------------------------------------------------
(* Properties of argument collection *)

\* the root engine and its sub-graph instances
Engines(d) == {d} \cup {d.graph[i][2] : i \in 1..Len(d.graph)}

\* the places of the pipe map of d whose pipe has the target pin (id, position)
PipesInto(d, id, position) ==
    {i \in 1..Len(d.pipe) :
        LET to == pinIdToPin(d.pipe[i][1])
        IN  PinNode(to) = id /\ PinPosition(to) = position}

\* the ids argValues() is called with: those of the nodes and one of no node
ArgValuesIds(d) == MapKeys(d.node) \cup {<<"n", "o", "n", "e">>}

-----------------------------------------------------------------------------
(* Properties of sub-graph instances *)

\* the context stored under key: an object, or None when the map has no
\* entry for key or holds null there
StoredContext(d, key) ==
    IF MapHas(d.context, key) /\ MapGet(d.context, key) # Null
    THEN Some(MapGet(d.context, key)) ELSE None

\* the names of the elements of an optional list
OptionalNames(list) == IF list = None THEN {} ELSE {list[1][i] : i \in 1..Len(list[1])}

\* the entry of table m for key k, None when there is none
Entry(m, k) == IF MapHas(m, k) THEN Some(MapGet(m, k)) ELSE None

\* C20: every sub-graph instance g of the engine (none of whose tables has
\* been written since createGraph made it) has exactly the callables of the
\* parent whose name is not an arg or an out of g, each the parent's, with
\* the parent's argument names and the parent's context of that name; an arg
\* or out of g has no callable in g, and its argument names are the ones the
\* constructor gave it
C20_InstanceInheritsUnshadowedFuncs ==
    \A n \in 1..Len(dflow.graph) :
        LET g == dflow.graph[n][2]
            markers == OptionalNames(g.args) \cup OptionalNames(g.outs)
            own == construct(MapGet(dflow.nodeGraph, g.name)).d
        IN  /\ FuncNames(g) = FuncNames(dflow) \ markers
            /\ \A name \in FuncNames(g) :
                   /\ MapGet(g.func, name) = MapGet(dflow.func, name)
                   /\ Entry(g.nodeArgs, name) = Entry(dflow.nodeArgs, name)
                   /\ StoredContext(g, name) = StoredContext(dflow, name)
            /\ \A name \in markers :
                   /\ ~MapHas(g.func, name)
                   /\ Entry(g.nodeArgs, name) = Entry(own.nodeArgs, name)

\* an instance exists whose parent has callables named as the instance's
\* input marker and output marker, and contexts stored by name
C20_Witness ==
    \E n \in 1..Len(dflow.graph) :
        LET g == dflow.graph[n][2]
        IN  /\ NameI \in OptionalNames(g.args) /\ MapHas(dflow.func, NameI)
            /\ NameO \in OptionalNames(g.outs) /\ MapHas(dflow.func, NameO)
            /\ StoredContext(dflow, NameI) # None
            /\ \E name \in FuncNames(g) : StoredContext(g, name) # None

-----------------------------------------------------------------------------
(* Properties of runs that follow a run *)

\* the run before the current one failed
LastRunFailed ==
    task.ended # <<>> /\ task.ended[Len(task.ended)] = "failed"

\* C15: a run() called after a failed run starts at the first node of a
\* newly sorted list of the nodes with an empty log (in an acyclic graph),
\* takes the nodes one by one, can always go on, fails only at a node whose
\* callable throws, and returns when every node of the node map has been
\* dispatched exactly once
C15_RunAfterFailedRun ==
    /\ [](LastRunFailed /\ task.pc = "running"
             => ENABLED RunNext \/ ENABLED RunReturn)
    /\ [][(task'.ended # <<>> /\ task'.ended[Len(task'.ended)] = "failed") =>
             /\ (task.pc = "failed" /\ task'.ended # task.ended /\ Acyclic(dflow)) =>
                    /\ task'.pc = "running"
                    /\ task'.i = 1
                    /\ task'.log = <<>>
                    /\ Len(task'.sorted) = Len(dflow.node)
                    /\ \A n \in 1..Len(dflow.node) :
                           \E h \in 1..Len(task'.sorted) : task'.sorted[h] = dflow.node[n]
             /\ (task.pc = "running" /\ task'.pc = "running" /\ task' # task) =>
                    /\ task'.i = task.i + 1
                    /\ DispatchesOf(task'.log, task.sorted[task.i][1])
                           \ DispatchesOf(task.log, task.sorted[task.i][1]) # {}
             /\ (task.pc = "running" /\ task'.pc = "failed") =>
                    /\ MapHas(dflow.func, task.sorted[task.i][2])
                    /\ Throws(MapGet(dflow.func, task.sorted[task.i][2]))
             /\ (task.pc = "running" /\ task'.pc = "done") =>
                    /\ thrown' = <<>>
                    /\ \A n \in 1..Len(dflow.node) :
                           Cardinality(DispatchesOf(task'.log, dflow.node[n][1])) = 1]_vars

\* a run returned after the run before it had failed, with a node dispatched
C15_Witness ==
    /\ LastRunFailed
    /\ task.pc = "done"
    /\ \E n \in 1..Len(dflow.node) : DispatchesOf(task.log, dflow.node[n][1]) # {}

\* C19: when the callable of a node is called and returns, the receiver it
\* was called with is the context stored under the node's id if there is
\* one, else the context stored under the node's name if there is one, else
\* null (a context is an object; null stored under a key is no context)
C19_ContextByIdThenByName ==
    [][\A j \in NewEvents :
          LET nodeId == task'.log[j].nodeId
              nodeName == MapGet(dflow.node, nodeId)
          IN  (/\ task'.log[j].type = "call"
               /\ task'.log[j].graph = <<>>
               /\ ~Throws(MapGet(dflow.func, nodeName)))
              => /\ MapHas(dflow'.out, nodeId)
                 /\ MapGet(dflow'.out, nodeId).this =
                        IF StoredContext(dflow, nodeId) # None
                        THEN StoredContext(dflow, nodeId)[1]
                        ELSE IF StoredContext(dflow, nodeName) # None
                        THEN StoredContext(dflow, nodeName)[1]
                        ELSE Null]_vars

\* a callable was called with the context of its node's id although a
\* context had been stored under its name before
C19_Witness ==
    /\ CallsOf(task.log, AgainIds[1]) # {}
    /\ MapHas(dflow.out, AgainIds[1])
    /\ MapGet(dflow.out, AgainIds[1]).this = Object("i")
    /\ StoredContext(dflow, NameK) = Some(Object("n"))
    /\ MapHas(dflow.context, AgainIds[1])
    /\ MapIndex(dflow.context, NameK) < MapIndex(dflow.context, AgainIds[1])


-----------------------------------------------------------------------------
(* Properties of sub-graph instances while the parent is edited *)

\* the callable, argument-name and context tables of an engine
Tables(d) == <<d.func, d.nodeArgs, d.context>>

\* C21: once a sub-graph instance has been created, no step (a callable added
\* to the parent, the argument names or the context of a callable of the
\* parent replaced, a later run of the parent) changes the callable,
\* argument-name and context tables of the instance
C21_InstanceKeepsItsSnapshot ==
    [][\A i \in 1..Len(dflow.graph) :
          /\ MapHas(dflow'.graph, dflow.graph[i][1])
          /\ Tables(MapGet(dflow'.graph, dflow.graph[i][1])) = Tables(dflow.graph[i][2])]_vars

\* a second run has ended with an instance that lacks a callable added to the
\* parent after its creation, and whose argument names and context of d are
\* not the ones the parent has now
C21_Witness ==
    /\ task.pc = "done"
    /\ Len(task.ended) = 1
    /\ \E i \in 1..Len(dflow.graph) :
           LET child == dflow.graph[i][2]
           IN  /\ MapHas(dflow.func, NameT) /\ ~MapHas(child.func, NameT)
               /\ MapGet(dflow.nodeArgs, NameD) # MapGet(child.nodeArgs, NameD)
               /\ MapHas(dflow.context, NameD) /\ ~MapHas(child.context, NameD)

-----------------------------------------------------------------------------
(* Properties of the output cache *)

\* C22: after run() has returned, every node that has a bound callable or a
\* sub-graph instance has an entry in the output cache at its bare node id
C22_CacheCompleteAfterRun ==
    task.pc = "done" =>
        \A i \in 1..Len(dflow.node) :
            (MapHas(dflow.func, dflow.node[i][2]) \/ MapHas(dflow.graph, dflow.node[i][1]))
                => MapHas(dflow.out, dflow.node[i][1])

\* C23: when a run that follows another run starts dispatching, the output
\* cache holds no entry (nothing an earlier run wrote is left in it)
C23_CacheClearedPerRun ==
    (task.pc = "running" /\ task.i = 1 /\ Len(task.ended) > 0) => dflow.out = <<>>

-----------------------------------------------------------------------------
(* Properties of runs with async callables *)

\* the last node the log says was dispatched, <<>> when there is none
LastDispatched(log) ==
    LET at == {j \in 1..Len(log) : log[j].type = "dispatch" /\ log[j].graph = <<>>}
    IN  IF at = {} THEN <<>>
        ELSE log[CHOOSE j \in at : \A h \in at : h <= j].nodeId

\* C24: while the call of an async callable has not settled, its node is the
\* last one that was dispatched; and when the callable of a node has been
\* called, every node with an async callable that feeds one of its input
\* pins has its result in the output cache
C24_AsyncResultAwaited ==
    /\ \A j \in 1..Len(task.pending) :
           /\ Len(task.pending) = 1
           /\ LastDispatched(task.log) = task.pending[j].nodeId
    /\ \A e \in PipeEdges(dflow) :
           (/\ CallsOf(task.log, e[2]) # {}
            /\ MapHas(dflow.node, e[1])
            /\ MapHas(dflow.func, MapGet(dflow.node, e[1]))
            /\ isAsyncFunc(MapGet(dflow.func, MapGet(dflow.node, e[1]))))
               => MapHas(dflow.out, e[1])

\* a node fed by a node with an async callable has been called with the
\* result of that callable as an argument value
C24_Witness ==
    \E e \in PipeEdges(dflow) :
        /\ MapHas(dflow.node, e[1])
        /\ MapHas(dflow.func, MapGet(dflow.node, e[1]))
        /\ isAsyncFunc(MapGet(dflow.func, MapGet(dflow.node, e[1])))
        /\ CallsOf(task.log, e[2]) # {}
        /\ MapHas(dflow.out, e[1]) /\ MapHas(dflow.out, e[2])
        /\ \E k \in 1..Len(MapGet(dflow.out, e[2]).args) :
               MapGet(dflow.out, e[2]).args[k] = MapGet(dflow.out, e[1])

-----------------------------------------------------------------------------
(* Properties of pins, serialization and descriptions *)

\* the pins of the round trip have positions up to MaxPinPosition
MaxPinPosition == 11

\* the node ids of the round trip: the ids of the nodes in the store, the
\* ids the store operations are called with, an id that is a numeral and an
\* id that ends with digits
RoundTripIds == MapKeys(dflow.node) \cup NodeIds \cup {<<"1">>, <<"n", "1", "0">>}

\* C25: for every pin p, a node id or a pair of a node id and a position,
\* pinIdToPin(pinToPinId(p)) is p, except that the pair (id, 0) gives the
\* bare id
C25_PinRoundTrip ==
    \A id \in RoundTripIds :
        /\ pinIdToPin(pinToPinId(StringPin(id))) = StringPin(id)
        /\ \A position \in 0..MaxPinPosition :
               pinIdToPin(pinToPinId(ArrayPin(id, position)))
                   = IF position = 0 THEN StringPin(id) ELSE ArrayPin(id, position)

\* the store holds a pipe whose target was given as a pair with a position
\* and whose source was given as a bare id or as a pair with position 0, and
\* both are read back from their PinIds
C25_Witness ==
    \E i \in 1..Len(dflow.pipe) :
        /\ pinIdToPin(dflow.pipe[i][1]).type = "array"
        /\ pinIdToPin(dflow.pipe[i][1]).position = MaxPos
        /\ pinIdToPin(dflow.pipe[i][2]).type = "string"

\* C26: in every store the store operations reach, new Dflow(toValue())
\* succeeds and the toValue() of the new engine equals the one of the store:
\* same name, args, outs, and the same nodes and pipes in the same order
C26_ToValueRoundTrip ==
    LET value == toValue(dflow)
        copy == construct(value)
    IN  /\ copy.thrown = <<>>
        /\ toValue(copy.d) = value

\* the places of pipe map m whose target is the input pin (id, position)
PipesInto_Pin(m, id, position) ==
    {i \in 1..Len(m) : pinIdToPin(m[i][1]) = pinIdToPin(CanonicalPinId(id, position))}

\* C27: every input pin is the target of at most one entry of the pipe map;
\* addPipe(from -> to) with both nodes present leaves exactly one entry for
\* the input pin `to`, with source `from`, and keeps every pipe into another
\* input pin, those with the same source included; and giving the target as
\* (id, 0) or as the bare id has the same effect
C27_OnePipePerInputPin ==
    /\ \A i, j \in 1..Len(dflow.pipe) :
           pinIdToPin(dflow.pipe[i][1]) = pinIdToPin(dflow.pipe[j][1]) => i = j
    /\ \A pipe \in Pipes :
           LET r == addPipe(dflow, pipe)
               id == PinNode(pipe.to)
               position == PinPosition(pipe.to)
               into == PipesInto_Pin(r.d.pipe, id, position)
           IN  r.thrown = <<>> =>
                   /\ Cardinality(into) = 1
                   /\ \A i \in into :
                          r.d.pipe[i][2]
                              = CanonicalPinId(PinNode(pipe.from), PinPosition(pipe.from))
                   /\ \A i \in (1..Len(dflow.pipe)) \ PipesInto_Pin(dflow.pipe, id, position) :
                          \E j \in 1..Len(r.d.pipe) : r.d.pipe[j] = dflow.pipe[i]
                   /\ r.d = addPipe(dflow, [pipe EXCEPT !.to = StringPin(id)]).d
                          \/ position # 0

\* the store holds two pipes with the same source, and one of them goes
\* into an input pin at position 0 that addPipe can give another source
\* through the pair (id, 0)
C27_Witness ==
    /\ \E i, j \in 1..Len(dflow.pipe) :
           i # j /\ dflow.pipe[i][2] = dflow.pipe[j][2]
    /\ \E pipe \in Pipes :
           /\ pipe.to.type = "array" /\ pipe.to.position = 0
           /\ addPipe(dflow, pipe).thrown = <<>>
           /\ MapHas(dflow.pipe, pipe.to.nodeId)
           /\ MapGet(dflow.pipe, pipe.to.nodeId) # pinToPinId(pipe.from)

\* the node entries a returned graph lists, and the pipe entries it lists
\* (target PinId, source PinId)
ListedNodes(graph) ==
    {<<graph.nodes[i].id, graph.nodes[i].name>> : i \in 1..Len(graph.nodes)}

ListedPipes(graph) ==
    {<<CanonicalPinId(PinNode(graph.pipes[i].to), PinPosition(graph.pipes[i].to)),
       CanonicalPinId(PinNode(graph.pipes[i].from), PinPosition(graph.pipes[i].from))>> :
        i \in 1..Len(graph.pipes)}

\* the entries of map m
Entries(m) == {m[i] : i \in 1..Len(m)}

\* C28: delete({nodes, pipes}) returns each node and each pipe it removed
\* once and nothing else (every returned item was stored and is not stored
\* any more, listed items that are not stored are not returned), and the
\* nodes and pipes it does not return stay as they were, in their order;
\* nothing else of the engine changes
C28_DeleteReturnsWhatItRemoved ==
    \A nodes \in ListsOf([id : NodeIds], MaxList + 1),
       pipes \in ListsOf([to : Pins], MaxList) :
        LET r == delete(dflow, nodes, pipes)
            deleted == r.returned[1]
        IN  /\ r.thrown = <<>>
            /\ Cardinality(ListedNodes(deleted)) = Len(deleted.nodes)
            /\ Cardinality(ListedPipes(deleted)) = Len(deleted.pipes)
            /\ ListedNodes(deleted) \subseteq Entries(dflow.node)
            /\ ListedPipes(deleted) \subseteq Entries(dflow.pipe)
            /\ r.d = [dflow EXCEPT
                         !.node = SelectSeq(@, LAMBDA e : e \notin ListedNodes(deleted)),
                         !.pipe = SelectSeq(@, LAMBDA e : e \notin ListedPipes(deleted))]

\* the store holds a node whose removal takes a pipe with it: delete() of
\* that node and of a pipe that is not stored returns the node and the pipe
\* of the node, and not the listed pipe
C28_Witness ==
    \E id \in NodeIds, to \in Pins :
        LET deleted == delete(dflow, <<[id |-> id]>>, <<[to |-> to]>>).returned[1]
        IN  /\ ~MapHas(dflow.pipe, pinToPinId(to))
            /\ Len(deleted.nodes) = 1
            /\ Len(deleted.pipes) = 1
            /\ Len(dflow.pipe) = MaxPipes

-----------------------------------------------------------------------------
(* Properties of the choice of the function constructor *)

\* the lists of code lines setNodeFunc() is given: without await, with await
\* inside a line, with await as a line of its own, with await and yield
CodeLists ==
    {<<<<"return", "p">>>>,
     <<<<"return", "await", "p">>>>,
     <<<<"v", "=", "await", "p">>, <<"return", "v">>>>,
     <<<<"await">>, <<"return", "p">>>>,
     <<<<"yield", "await", "p">>>>}

\* the code is the word sequence `words`: does it contain `word`
HasWord(words, word) == \E i \in 1..Len(words) : words[i] = word

\* C29: setNodeFunc() binds an async function exactly when the code contains
\* `await` and no `yield`, and a sync function otherwise, whether the code
\* is given as the list of its lines or as the one string of the lines
\* joined with `;`
C29_AsyncFactoryChosenByAwait ==
    \A name \in Names, args \in ArgsInputs, items \in CodeLists :
        LET joined == JoinWords(items, ";")
            asString == setNodeFunc(dflow, [name |-> name, args |-> args,
                                            code |-> StringCode(joined)])
            asList == setNodeFunc(dflow, [name |-> name, args |-> args,
                                          code |-> ArrayCode(items)])
            async == HasWord(joined, "await") /\ ~HasWord(joined, "yield")
        IN  asString.thrown = <<>> =>
                /\ asList.thrown = <<>>
                /\ isAsyncFunc(MapGet(asString.d.func, name)) = async
                /\ isFunc(MapGet(asString.d.func, name)) = ~async
                /\ isAsyncFunc(MapGet(asList.d.func, name)) = async
                /\ isFunc(MapGet(asList.d.func, name)) = ~async

-----------------------------------------------------------------------------
(* Properties of the description of an engine *)

\* the names the engine is given, and the args and outs lists it is given
\* (both are public fields)
DescribedNames == {<<>>, <<"t", "e", "s", "t">>}

DescribedLists == {None, Some(<<>>), Some(<<NameI>>), Some(<<NameI, NameO>>)}

\* the decimal digits of a count below 100
Decimal(n) == IF n < 10 THEN <<Digits[n + 1]>>
              ELSE <<Digits[(n \div 10) + 1], Digits[(n % 10) + 1]>>

\* C30: after any sequence of store operations, and whatever the name and
\* the args and outs lists are, toString() is
\* `Dflow name={name} args={a} nodes={n} pipes={p} outs={o}` with n and p
\* the sizes of the node map and of the pipe map and a and o the lengths of
\* the lists, 0 for a list that is absent
C30_ToStringCountsArgsNodesPipesOuts ==
    \A name \in DescribedNames, args \in DescribedLists, outs \in DescribedLists :
        toString([dflow EXCEPT !.name = name, !.args = args, !.outs = outs])
            = <<"D", "f", "l", "o", "w", " ", "n", "a", "m", "e", "=">> \o name
                \o <<" ", "a", "r", "g", "s", "=">> \o Decimal(IF args = None THEN 0 ELSE Len(args[1]))
                \o <<" ", "n", "o", "d", "e", "s", "=">> \o Decimal(Len(dflow.node))
                \o <<" ", "p", "i", "p", "e", "s", "=">> \o Decimal(Len(dflow.pipe))
                \o <<" ", "o", "u", "t", "s", "=">> \o Decimal(IF outs = None THEN 0 ELSE Len(outs[1]))

\* the store of the test of toString(): two nodes and a pipe, no args and no
\* outs
C30_Witness ==
    /\ Len(dflow.node) = 2
    /\ Len(dflow.pipe) = 1
    /\ toString(dflow) = <<"D", "f", "l", "o", "w", " ", "n", "a", "m", "e", "=", " ", "a", "r", "g", "s", "=", "0", " ", "n", "o", "d", "e", "s", "=", "2", " ", "p", "i", "p", "e", "s", "=", "1", " ", "o", "u", "t", "s", "=", "0">>

-----------------------------------------------------------------------------
(* Properties of the suspension points of a run *)

\* every callable of the engine is a sync function and it has no sub-graph
AllCallablesSync(d) ==
    /\ \A i \in 1..Len(d.func) : isFunc(d.func[i][2])
    /\ d.nodeGraph = <<>> /\ d.graph = <<>>

\* C31: while run() is going over a graph whose callables are all sync,
\* every step is a step of that run: it is never suspended, so no other
\* task acts between its call and its end
C31_SyncRunNotInterleaved ==
    [][(task.pc = "running" /\ AllCallablesSync(dflow)) => task' # task]_vars

-----------------------------------------------------------------------------
(* Properties of the dispatch by kind of callable *)

\* the callable bound to the name of node id, None when there is none
FuncOfNode(d, id) ==
    IF MapHas(d.node, id) /\ MapHas(d.func, MapGet(d.node, id))
    THEN Some(MapGet(d.func, MapGet(d.node, id))) ELSE None

\* the output cache of d has an entry for a pin of node id
HasOutput(d, id) == \E i \in 1..Len(d.out) : PinIdNode(d.out[i][1]) = id

\* C32: a node whose callable has the constructor of generator functions or
\* of async generator functions is never called by a run and has no entry
\* in the output cache; every callable a run calls has the constructor
\* Func or AsyncFunc
C32_OnlyFuncAndAsyncFuncInvoked ==
    \A i \in 1..Len(dflow.node) :
        LET id == dflow.node[i][1]
            func == FuncOfNode(dflow, id)
        IN  /\ (func # None /\ func[1].ctor \in {"GeneratorFunc", "AsyncGeneratorFunc"})
                   => (CallsOf(task.log, id) = {} /\ ~HasOutput(dflow, id))
            /\ CallsOf(task.log, id) # {}
                   => (func # None /\ func[1].ctor \in {"Func", "AsyncFunc"})

\* a run has returned after it dispatched a node with a generator function,
\* a node with an async generator function and a node it called
C32_Witness ==
    /\ task.pc = "done"
    /\ \E a, b, c \in MapKeys(dflow.node) :
           /\ FuncOfNode(dflow, a) # None /\ FuncOfNode(dflow, a)[1].ctor = "GeneratorFunc"
           /\ FuncOfNode(dflow, b) # None
           /\ FuncOfNode(dflow, b)[1].ctor = "AsyncGeneratorFunc"
           /\ DispatchesOf(task.log, a) # {} /\ DispatchesOf(task.log, b) # {}
           /\ CallsOf(task.log, c) # {}

-----------------------------------------------------------------------------
(* Properties of nodes with unbound names *)

\* the name of node id is bound to no callable, no sub-graph template and no
\* I/O marker
Unbound(d, id) ==
    /\ MapHas(d.node, id)
    /\ ~MapHas(d.func, MapGet(d.node, id))
    /\ ~MapHas(d.nodeGraph, MapGet(d.node, id))
    /\ MapGet(d.node, id) \notin d.ioNodes

\* the error names node id
ErrorNames(error, id) ==
    IF error.errorName \in {"DflowErrorNodeExecution", "DflowErrorNodeNotFound"}
    THEN error.nodeId = id ELSE FALSE

-----------------------------------------------------------------------------
(* Properties of the materialization of sub-graph nodes *)

\* C34: whatever the number of runs, an engine holds at most one sub-graph
\* instance per node id, and createGraph for a node that has an instance
\* returns without an error and leaves the engine, hence the instance with
\* its tables and its output cache, as it is
C34_OneInstancePerNodeId ==
    /\ \A i, j \in 1..Len(dflow.graph) :
           dflow.graph[i][1] = dflow.graph[j][1] => i = j
    /\ \A i \in 1..Len(dflow.graph), k \in 1..Len(dflow.nodeGraph) :
           createGraph(dflow, dflow.graph[i][1], Some(dflow.nodeGraph[k][2])) = Ok(dflow)

\* a second run has returned and has dispatched a node whose instance, made
\* by the first run, holds outputs
C34_Witness ==
    /\ task.pc = "done"
    /\ Len(task.ended) = 1
    /\ \E i \in 1..Len(dflow.graph) :
           /\ dflow.graph[i][2].out # <<>>
           /\ DispatchesOf(task.log, dflow.graph[i][1]) # {}

-----------------------------------------------------------------------------
(* Properties of nested sub-graphs *)

\* C35: when run() has returned, every sub-graph instance that was run holds,
\* for each of its nodes whose name is a template of the parent, an instance
\* of that node and an entry for a pin of that node in its output cache
C35_NestedTemplatesAreRun ==
    task.pc = "done" =>
        \A k \in Extractions(task.log) :
            LET instance == task.log[k].instance
            IN  \A j \in 1..Len(instance.node) :
                    MapHas(dflow.nodeGraph, instance.node[j][2])
                        => /\ MapHas(instance.graph, instance.node[j][1])
                           /\ HasOutput(instance, instance.node[j][1])

\* C39: with templates whose nested nodes are named after the template
\* itself or after each other, every run() that was called returns or
\* throws, and then no sub-graph instance holds an instance of its own (the
\* chain of nested instances has length one)
C39_RunWithSelfNamedTemplatesEnds ==
    (task.pc = "running")
        ~> (/\ task.pc \in {"done", "failed"}
            /\ \A i \in 1..Len(dflow.graph) : dflow.graph[i][2].graph = <<>>)

\* run() has returned after it ran the instance of a template that holds a
\* node named after the template itself
C39_Witness ==
    /\ task.pc = "done"
    /\ \E k \in Extractions(task.log) :
           LET instance == task.log[k].instance
           IN  \E j \in 1..Len(instance.node) :
                   /\ instance.node[j][2] = instance.name
                   /\ MapHas(dflow.nodeGraph, instance.name)

-----------------------------------------------------------------------------
(* Properties of delete followed by insert *)

\* every pipe of d has its source node and its target node in the node map
PipesConnected(d) ==
    \A i \in 1..Len(d.pipe) :
        MapHas(d.node, PinIdNode(d.pipe[i][1])) /\ MapHas(d.node, PinIdNode(d.pipe[i][2]))

\* C36: in a store whose pipes are all connected, insert() of the graph that
\* delete({nodes, pipes}) returned, into the store delete() left, throws
\* nothing and gives back the entries of the node map and of the pipe map
\* that were there before the delete
C36_InsertRestoresDeleted ==
    PipesConnected(dflow) =>
        \A nodes \in ListsOf([id : NodeIds], MaxList + 1),
           pipes \in ListsOf([to : Pins], MaxList) :
            LET r == delete(dflow, nodes, pipes)
                deleted == r.returned[1]
                back == insert(r.d, deleted.nodes, deleted.pipes)
            IN  /\ back.thrown = <<>>
                /\ Entries(back.d.node) = Entries(dflow.node)
                /\ Entries(back.d.pipe) = Entries(dflow.pipe)

-----------------------------------------------------------------------------
(* Properties of insert *)

\* the PinIds of the target and of the source of a pipe
ToId(pipe) == CanonicalPinId(PinNode(pipe.to), PinPosition(pipe.to))

FromId(pipe) == CanonicalPinId(PinNode(pipe.from), PinPosition(pipe.from))

\* C37: insert({nodes, pipes}) stores every listed node, whether it throws or
\* not, and a listed pipe is broken only if one of its nodes is neither
\* stored nor listed; it throws BrokenPipe with the first broken pipe, the
\* k-th one, and then the pipe map is the one before the call with the
\* first k-1 listed pipes set and none of the later ones; with no broken
\* pipe it throws nothing and all listed pipes are set
C37_InsertNodesFirstNoRollback ==
    \A nodes \in ListsOf([id : NodeIds, name : StoreNames], MaxList + 1),
       pipes \in ListsOf(ListedPipeInputs, MaxInsert) :
        LET r == insert(dflow, nodes, pipes)
            ids == MapKeys(dflow.node) \cup {nodes[i].id : i \in 1..Len(nodes)}
            broken == {j \in 1..Len(pipes) :
                          PinNode(pipes[j].from) \notin ids \/ PinNode(pipes[j].to) \notin ids}
            k == IF broken = {} THEN Len(pipes) + 1
                 ELSE CHOOSE j \in broken : \A other \in broken : j <= other
            set == {ToId(pipes[j]) : j \in 1..(k - 1)}
        IN  /\ MapKeys(r.d.node) = ids
            /\ \A i \in 1..Len(nodes) :
                   (\A later \in (i + 1)..Len(nodes) : nodes[later].id # nodes[i].id)
                       => MapGet(r.d.node, nodes[i].id) = nodes[i].name
            /\ \A i \in 1..Len(dflow.node) :
                   dflow.node[i][1] \notin {nodes[j].id : j \in 1..Len(nodes)}
                       => MapGet(r.d.node, dflow.node[i][1]) = dflow.node[i][2]
            /\ r.thrown = IF broken = {} THEN <<>> ELSE <<BrokenPipe(pipes[k])>>
            /\ MapKeys(r.d.pipe) = MapKeys(dflow.pipe) \cup set
            /\ \A i \in 1..Len(r.d.pipe) :
                   LET key == r.d.pipe[i][1]
                       last == {j \in 1..(k - 1) :
                                   /\ ToId(pipes[j]) = key
                                   /\ \A later \in (j + 1)..(k - 1) : ToId(pipes[later]) # key}
                   IN  IF key \in set
                       THEN \A j \in last : r.d.pipe[i][2] = FromId(pipes[j])
                       ELSE r.d.pipe[i][2] = MapGet(dflow.pipe, key)

\* insert() has thrown BrokenPipe for a pipe to a node that is not stored, and
\* the store holds one node and one pipe
C37_Witness ==
    /\ thrown # <<>>
    /\ thrown[1].errorName = "DflowErrorBrokenPipe"
    /\ Len(dflow.node) = 1
    /\ PinNode(thrown[1].pipe.to) \notin MapKeys(dflow.node)
    /\ Len(dflow.pipe) = 1

-----------------------------------------------------------------------------
(* Properties of sub-graph instances while nodes are deleted and added *)

\* C38: every sub-graph instance of the engine has the id of a stored node
\* as its key, and the name of that node is the name of a template and the
\* name of the instance (the instance was built from that template)
C38_InstancesFollowNodes ==
    \A i \in 1..Len(dflow.graph) :
        /\ MapHas(dflow.node, dflow.graph[i][1])
        /\ MapHas(dflow.nodeGraph, MapGet(dflow.node, dflow.graph[i][1]))
        /\ dflow.graph[i][2].name = MapGet(dflow.node, dflow.graph[i][1])

-----------------------------------------------------------------------------
(* Properties of the contexts of a DflowExecutor *)

\* C40: when run() is about to dispatch a node whose callable was registered
\* with code that uses this.emit or this.stop, the context map has, under
\* the id of the node, the context with emit bound to the pin (id, 1) and
\* with stop, whatever the order of addNode() and setNodeFunc() was
C40_EmitContextAtDispatch ==
    (task.pc = "running" /\ task.i <= Len(task.sorted)) =>
        LET nodeId == task.sorted[task.i][1]
            func == FuncOfNode(dflow, nodeId)
        IN  (func # None /\ MemberCalled(func[1]) # None)
                => /\ MapHas(dflow.context, nodeId)
                   /\ MapGet(dflow.context, nodeId) = EmitContext(nodeId)

====
